---------------------------- MODULE Spec2Model ----------------------------
(***************************************************************************)
(* A model of the GREBot ledger (transaction_data.py) and of the parts of  *)
(* the bot (main.py, trade_commands.py, daily_risk.py) that drive it.      *)
(*                                                                         *)
(* Representation.                                                         *)
(*   - A calendar day is an integer; the wall clock is the variable now.    *)
(*   - A text is a sequence of one-character strings; the euro and pound    *)
(*     signs are written "EUR" and "GBP".                                   *)
(*   - A float is a fixed-point integer counting 1/Scale units.             *)
(*   - A dictionary field is a record [tag, val]: tag "str" for a string    *)
(*     value, "none" for Python's None (a short CSV line), "absent" for a   *)
(*     key the dictionary does not hold.                                    *)
(***************************************************************************)
EXTENDS Integers, Sequences, FiniteSets, TLC

\* ------------------------------------------------------------------ bounds

\* The last calendar day the clock reaches; the days are 0..MaxDay.
MaxDay == 2

\* The number of rows one ledger ingests (bulk load and appends together).
MaxTx == 2

\* The longest CSV file a bulk load reads.
MaxCsv == 2

\* The fixed-point denominator of a float: values are counted in 1/Scale.
Scale == 100

Days == 0..MaxDay

\* ------------------------------------------------------------------- texts

Whitespace == {" "}

IsDigit(c) == c \in {"0", "1", "2", "3", "4", "5", "6", "7", "8", "9"}

DigitVal(c) ==
    CASE c = "0" -> 0 [] c = "1" -> 1 [] c = "2" -> 2 [] c = "3" -> 3
      [] c = "4" -> 4 [] c = "5" -> 5 [] c = "6" -> 6 [] c = "7" -> 7
      [] c = "8" -> 8 [] c = "9" -> 9

\* str.strip(): leading and trailing whitespace removed.
RECURSIVE LStrip(_)
LStrip(s) ==
    IF s # <<>> /\ Head(s) \in Whitespace THEN LStrip(Tail(s)) ELSE s

RECURSIVE RStrip(_)
RStrip(s) ==
    IF s # <<>> /\ s[Len(s)] \in Whitespace
    THEN RStrip(SubSeq(s, 1, Len(s) - 1))
    ELSE s

Strip(s) == RStrip(LStrip(s))

\* The value of a run of digits, most significant first.
RECURSIVE DigitsVal(_)
DigitsVal(s) ==
    IF s = <<>> THEN 0
    ELSE DigitsVal(SubSeq(s, 1, Len(s) - 1)) * 10 + DigitVal(s[Len(s)])

AllDigits(s) == \A i \in 1..Len(s) : IsDigit(s[i])

\* The index of the first "." of s, or 0.
DotIndex(s) ==
    IF \E i \in 1..Len(s) : s[i] = "."
    THEN CHOOSE i \in 1..Len(s) : s[i] = "." /\ \A j \in 1..(i - 1) : s[j] # "."
    ELSE 0

\* float(s) on an unsigned decimal: digits, optionally one "." among them,
\* at least one digit in all.
UnsignedOk(s) ==
    LET dot == DotIndex(s)
        ip  == IF dot = 0 THEN s ELSE SubSeq(s, 1, dot - 1)
        fp  == IF dot = 0 THEN <<>> ELSE SubSeq(s, dot + 1, Len(s))
    IN  /\ AllDigits(ip)
        /\ AllDigits(fp)
        /\ Len(ip) + Len(fp) > 0

\* Ten to the power n.
RECURSIVE Pow10(_)
Pow10(n) == IF n = 0 THEN 1 ELSE 10 * Pow10(n - 1)

\* The fixed-point value of an unsigned decimal (digits past the resolution
\* of the fixed point are cut).
UnsignedVal(s) ==
    LET dot == DotIndex(s)
        ip  == IF dot = 0 THEN s ELSE SubSeq(s, 1, dot - 1)
        fp  == IF dot = 0 THEN <<>> ELSE SubSeq(s, dot + 1, Len(s))
    IN  DigitsVal(ip) * Scale + (DigitsVal(fp) * Scale) \div Pow10(Len(fp))

\* float(text): surrounding whitespace, an optional sign, a decimal.
\* [ok |-> FALSE] stands for the ValueError.
Float(text) ==
    LET s      == Strip(text)
        signed == s # <<>> /\ Head(s) \in {"+", "-"}
        body   == IF signed THEN Tail(s) ELSE s
    IN  IF UnsignedOk(body)
        THEN [ok |-> TRUE,
              val |-> IF signed /\ Head(s) = "-"
                      THEN 0 - UnsignedVal(body) ELSE UnsignedVal(body)]
        ELSE [ok |-> FALSE, val |-> 0]

\* (A replace chain that leaves the thousands separators in.)
RemoveCurrencyOnly(s) == SelectSeq(s, LAMBDA c : c \notin {"$", "EUR", "GBP"})

\* str.replace(c, '') for each of the currency symbols and the comma.
RemoveSymbols(s) == SelectSeq(s, LAMBDA c : c \notin {"$", "EUR", "GBP", ","})

\* TransactionData.parse_amount on a text.
parse_amount(text) ==
    LET value == Strip(text)
        bare  == RemoveSymbols(value)
    IN  IF value \in {<<"-">>, <<>>, <<"$", "-">>, <<" ", "$", "-">>}
        THEN 0
        ELSE IF bare # <<>> /\ Head(bare) = "(" /\ bare[Len(bare)] = ")"
             THEN LET inner == Float(SubSeq(bare, 2, Len(bare) - 1))
                  IN  IF inner.ok THEN 0 - inner.val ELSE 0
             ELSE LET whole == Float(bare)
                  IN  IF whole.ok THEN whole.val ELSE 0

\* datetime.strptime(text, '%Y-%m-%d') on the text of a day number: one or
\* two digits (zero padding is optional on input).
DateOk(text) == Len(text) \in {1, 2} /\ AllDigits(text)

DateVal(text) == DigitsVal(text)


\* str.lower() on one phrase of a note.
LowerPhrase(p) ==
    CASE p = "Invest" -> "invest"
      [] p = "Pre Convert" -> "pre convert"
      [] p = "Margin Cover" -> "margin cover"
      [] p = "Short Term Juicing" -> "short term juicing"
      [] p = "Personal Withdraw" -> "personal withdraw"
      [] OTHER -> p

\* str.lower() on a note, a sequence of phrases.
Lower(notes) == [i \in 1..Len(notes) |-> LowerPhrase(notes[i])]

\* marker in notes: some phrase of the note is the marker.
Contains(notes, marker) == \E i \in 1..Len(notes) : notes[i] = marker

\* --------------------------------------------------------------- binary64

\* A Python float other than zero, for the amounts above zero: the value
\* mant x 2^(exp - 52), mant a sequence of 53 bits, the first of them 1.
\* Zero64 is 0.0.
Zero64 == [zero |-> TRUE, exp |-> 0, mant |-> <<>>]

Double(exp, mant) == [zero |-> FALSE, exp |-> exp, mant |-> mant]

\* The bits of a natural number, the most significant first.
RECURSIVE BitsOf(_)
BitsOf(n) == IF n = 0 THEN <<>> ELSE Append(BitsOf(n \div 2), n % 2)

\* The first k bits of the binary fraction r / den (r < den), and what is
\* left of r after them.
RECURSIVE FracBits(_, _, _)
FracBits(r, den, k) ==
    IF k = 0 THEN <<>>
    ELSE <<(2 * r) \div den>> \o FracBits((2 * r) % den, den, k - 1)

RECURSIVE FracRem(_, _, _)
FracRem(r, den, k) == IF k = 0 THEN r ELSE FracRem((2 * r) % den, den, k - 1)

\* The count of zero bits the fraction r / den begins with (r > 0).
RECURSIVE LeadingZeros(_, _)
LeadingZeros(r, den) ==
    IF 2 * r >= den THEN 0 ELSE 1 + LeadingZeros(2 * r, den)

Zeros(n) == [i \in 1..n |-> 0]

\* bits + 1: a bit flips when every bit after it is 1; carry is set when
\* every bit was 1.
Increment(bits) ==
    [bits  |-> [i \in 1..Len(bits) |->
                   IF \A k \in (i + 1)..Len(bits) : bits[k] = 1
                   THEN 1 - bits[i] ELSE bits[i]],
     carry |-> IF \A k \in 1..Len(bits) : bits[k] = 1 THEN 1 ELSE 0]

\* Round to nearest, ties to even: the exact value has the bits given, the
\* first of them 1 and worth 2^exp, and sticky tells of value below them.
RoundUp(bits, sticky) ==
    /\ Len(bits) > 53
    /\ bits[54] = 1
    /\ \/ sticky
       \/ \E i \in 55..Len(bits) : bits[i] = 1
       \/ bits[53] = 1

Round64(exp, bits, sticky) ==
    IF ~RoundUp(bits, sticky)
    THEN Double(exp, SubSeq(bits \o Zeros(53), 1, 53))
    ELSE IF Increment(SubSeq(bits, 1, 53)).carry = 1
    THEN Double(exp + 1, <<1>> \o Zeros(52))
    ELSE Double(exp, Increment(SubSeq(bits, 1, 53)).bits)

\* float(text) for a text worth c / Scale, c >= 0: the float nearest to it.
Binary64(c) ==
    IF c = 0 THEN Zero64
    ELSE IF c >= Scale
    THEN Round64(Len(BitsOf(c \div Scale)) - 1,
                 BitsOf(c \div Scale)
                   \o FracBits(c % Scale, Scale, 54 - Len(BitsOf(c \div Scale))),
                 FracRem(c % Scale, Scale, 54 - Len(BitsOf(c \div Scale))) # 0)
    ELSE Round64(0 - (LeadingZeros(c, Scale) + 1),
                 FracBits(FracRem(c, Scale, LeadingZeros(c, Scale)), Scale, 54),
                 FracRem(c, Scale, LeadingZeros(c, Scale) + 54) # 0)

\* The carry into bit i of a + b: some bit after i makes one and every bit
\* between passes it on.
CarryInto(a, b, i) ==
    IF \E j \in (i + 1)..Len(a) :
           /\ a[j] = 1
           /\ b[j] = 1
           /\ \A k \in (i + 1)..(j - 1) : a[k] # b[k]
    THEN 1 ELSE 0

\* a + b of two bit sequences of one length, the carry kept in front.
AddBits(a, b) ==
    (IF CarryInto(a, b, 0) = 1 THEN <<1>> ELSE <<>>)
    \o [i \in 1..Len(a) |-> (a[i] + b[i] + CarryInto(a, b, i)) % 2]

\* hi + lo, hi.exp >= lo.exp: the exact sum, rounded.
AddAligned(hi, lo, sum) ==
    Round64(hi.exp + (Len(sum) - (53 + hi.exp - lo.exp)), sum, FALSE)

AddOrdered(hi, lo) ==
    IF hi.exp - lo.exp >= 54 THEN hi
    ELSE AddAligned(hi, lo,
                    AddBits(hi.mant \o Zeros(hi.exp - lo.exp),
                            Zeros(hi.exp - lo.exp) \o lo.mant))

\* x + y of two floats that are not negative.
FloatAdd(x, y) ==
    IF x.zero THEN y
    ELSE IF y.zero THEN x
    ELSE IF x.exp >= y.exp THEN AddOrdered(x, y)
    ELSE AddOrdered(y, x)

\* ------------------------------------------------------------------ fields

\* An identity field (account, ticker, currency, margin, type).
Str(v) == [tag |-> "str", val |-> v]
NoneStr == [tag |-> "none", val |-> ""]
AbsentStr == [tag |-> "absent", val |-> ""]

\* A text field (date, shares, strike, expiry, net gains, notes).
Txt(v) == [tag |-> "str", val |-> v]
NoneTxt == [tag |-> "none", val |-> <<>>]
AbsentTxt == [tag |-> "absent", val |-> <<>>]

\* first_transaction_date and last_update before they are set (None).
NoDate == -1

\* The value of a filter that is not given (None).
NoFilter == [tag |-> "none", val |-> ""]

Categories ==
    {"investments", "revenue", "opt_positions", "opt_notional",
     "stk_shares", "stk_notional", "cash_balances"}

\* A series, or a category, with nothing in it.
EmptyMap == [x \in {} |-> 0]

\* TransactionData.__init__
NewLedger(limit, usage) ==
    [transactions           |-> <<>>,
     daily_balances         |-> [c \in Categories |-> EmptyMap],
     first_transaction_date |-> NoDate,
     last_update            |-> NoDate,
     LOCLimit               |-> limit,
     LOCUsage               |-> usage]

\* TransactionData.get_loc_info
get_loc_info(L) == <<L.LOCLimit, L.LOCUsage>>

\* --------------------------------------------------- update_daily_balance

\* (A forward fill that starts the day after the date.)
FillDaysAfterDate(date, today) == (date + 1)..today

\* The days update_daily_balance writes: date + n for n in
\* range((now - date).days + 1); none when the date is after today.
FillDays(date, today) == date..today

\* TransactionData.update_daily_balance on the store db: the series is
\* created when absent (defaultdict), and every written day starts from 0.
update_daily_balance(db, cat, key, date, amount, today) ==
    LET old  == IF key \in DOMAIN db[cat] THEN db[cat][key] ELSE EmptyMap
        fill == FillDays(date, today)
        new  == [d \in (DOMAIN old) \cup fill |->
                    (IF d \in DOMAIN old THEN old[d] ELSE 0)
                  + (IF d \in fill THEN amount ELSE 0)]
    IN  [db EXCEPT ![cat] =
            [k \in (DOMAIN db[cat]) \cup {key} |->
                IF k = key THEN new ELSE db[cat][k]]]

\* A sequence of updates [cat, key, date, amount] applied in order.
RECURSIVE ApplyUpdates(_, _, _)
ApplyUpdates(db, ups, today) ==
    IF ups = <<>> THEN db
    ELSE ApplyUpdates(
            update_daily_balance(db, Head(ups).cat, Head(ups).key,
                                 Head(ups).date, Head(ups).amount, today),
            Tail(ups), today)

\* ----------------------------------------------------- process_transaction

\* transaction[field]: KeyError when the key is absent.
Lookup(f) == IF f.tag = "absent" THEN "KeyError" ELSE "ok"

\* self.parse_amount(transaction[field]): KeyError when the key is absent,
\* AttributeError (None has no strip) when the value is None.
LookupAmount(f) ==
    IF f.tag = "absent" THEN "KeyError"
    ELSE IF f.tag = "none" THEN "AttributeError"
    ELSE "ok"

\* datetime.strptime(transaction[field], '%Y-%m-%d'): KeyError when the key
\* is absent, TypeError when the value is None, ValueError when the text is
\* no date.
LookupDate(f) ==
    IF f.tag = "absent" THEN "KeyError"
    ELSE IF f.tag = "none" THEN "TypeError"
    ELSE IF ~DateOk(f.val) THEN "ValueError"
    ELSE "ok"

\* The first exception of a sequence of steps, "ok" when none raises.
RECURSIVE FirstError(_)
FirstError(outs) ==
    IF outs = <<>> THEN "ok"
    ELSE IF Head(outs) # "ok" THEN Head(outs)
    ELSE FirstError(Tail(outs))

\* The exceptions process_transaction catches (it prints and returns).
Caught == {"KeyError", "ValueError"}

Update(cat, key, date, amount) ==
    [cat |-> cat, key |-> key, date |-> date, amount |-> amount]

\* The 'Acct' key read with a byte-order mark before it is renamed 'Acct'.
RenameBom(row) ==
    IF row.Acct.tag = "bom" THEN [row EXCEPT !.Acct.tag = "str"] ELSE row

\* (An investments update that looks for the temporary markers first.)
InvestmentUpdatesTempFirst(row, date, amount) ==
    LET notes == Lower(IF row.Notes.tag = "str" THEN row.Notes.val ELSE <<>>)
        key(bucket) == <<row.Acct, row.Currency, Str(bucket)>>
    IN  IF row.TransType # Str("Cash") THEN <<>>
        ELSE IF Contains(notes, "margin cover")
                \/ Contains(notes, "short term juicing")
             THEN <<Update("investments", key("temp"), date, amount)>>
        ELSE IF (Contains(notes, "invest") /\ Contains(notes, "pre convert"))
                \/ Contains(notes, "personal withdraw")
             THEN <<Update("investments", key("regular"), date, amount)>>
        ELSE <<>>

\* The investments update of a Cash row, chosen by its notes.
InvestmentUpdates(row, date, amount) ==
    LET notes == Lower(IF row.Notes.tag = "str" THEN row.Notes.val ELSE <<>>)
        key(bucket) == <<row.Acct, row.Currency, Str(bucket)>>
    IN  IF row.TransType # Str("Cash") THEN <<>>
        ELSE IF Contains(notes, "invest") /\ Contains(notes, "pre convert")
             THEN <<Update("investments", key("regular"), date, amount)>>
        ELSE IF Contains(notes, "margin cover")
                \/ Contains(notes, "short term juicing")
             THEN <<Update("investments", key("temp"), date, amount)>>
        ELSE IF Contains(notes, "personal withdraw")
             THEN <<Update("investments", key("regular"), date, amount)>>
        ELSE <<>>

RevenueTypes == {Str("Put"), Str("Call"), Str("Cap Gains"), Str("Div"), Str("Int / Tax")}

\* (Revenue written for every type but Cash.)
RevenueUpdatesButCash(row, date, amount) ==
    IF row.TransType # Str("Cash")
    THEN <<Update("revenue",
                  <<row.Acct, row.Currency, row.Ticker, row.TransType>>,
                  date, amount)>>
    ELSE <<>>

RevenueUpdates(row, date, amount) ==
    IF row.TransType \in RevenueTypes
    THEN <<Update("revenue",
                  <<row.Acct, row.Currency, row.Ticker, row.TransType>>,
                  date, amount)>>
    ELSE <<>>

\* The option branch: the exception that ends it, "ok" when none does.
OptionOutcome(row) ==
    IF row.TransType \in {Str("Put"), Str("Call")}
    THEN FirstError(<<LookupAmount(row.Shares),
                      IF row.Strike.tag = "none" THEN "AttributeError" ELSE "ok",
                      LookupDate(row.Expiry)>>)
    ELSE "ok"

\* The sign bit of float(text), text a decimal float() accepts: set by a
\* leading "-" (float('-0') is -0.0).
FloatSignBit(text) == Strip(text) # <<>> /\ Head(Strip(text)) = "-"

\* The sign bit of parse_amount(text), by its branches: 0.0 for a dash or
\* an unparsable text, -float(inner) for a text in parentheses, float(text)
\* otherwise.
AmountSignBit(text) ==
    IF Strip(text) \in {<<"-">>, <<>>, <<"$", "-">>, <<" ", "$", "-">>}
    THEN FALSE
    ELSE IF RemoveSymbols(Strip(text)) # <<>>
            /\ Head(RemoveSymbols(Strip(text))) = "("
            /\ RemoveSymbols(Strip(text))[Len(RemoveSymbols(Strip(text)))] = ")"
    THEN /\ Float(SubSeq(RemoveSymbols(Strip(text)), 2,
                         Len(RemoveSymbols(Strip(text))) - 1)).ok
         /\ ~FloatSignBit(SubSeq(RemoveSymbols(Strip(text)), 2,
                                 Len(RemoveSymbols(Strip(text))) - 1))
    ELSE /\ Float(RemoveSymbols(Strip(text))).ok
         /\ FloatSignBit(RemoveSymbols(Strip(text)))

\* (A text of a float that writes both zeros alike.)
StrOfFloatUnsigned(val, signbit) == [digits |-> val, minus |-> val < 0]

\* str(x) of a float: one text per value, and "-0.0" apart from "0.0".
StrOfFloat(val, signbit) ==
    [digits |-> val, minus |-> val < 0 \/ (val = 0 /\ signbit)]

\* transaction.get('Strike/Price', '0')
StrikeText(row) == IF row.Strike.tag = "absent" THEN <<"0">> ELSE row.Strike.val

\* The key of an option series: str(strike_price) and
\* expiry.strftime('%Y-%m-%d'), the latter one text per date.
OptionKey(row, strike) ==
    <<row.Acct, row.Currency, row.Margin, row.Ticker, row.TransType,
      StrOfFloat(strike, AmountSignBit(StrikeText(row))),
      DateVal(row.Expiry.val)>>

OptionUpdatesFor(row, date, shares, strike) ==
    <<Update("opt_positions", OptionKey(row, strike), date, shares),
      Update("opt_notional", OptionKey(row, strike), date,
             (shares * strike) \div Scale)>>

\* The updates of the option branch when nothing raises in it.
OptionUpdates(row, date) ==
    IF row.TransType \in {Str("Put"), Str("Call")}
    THEN OptionUpdatesFor(row, date, parse_amount(row.Shares.val),
                          parse_amount(StrikeText(row)))
    ELSE <<>>

\* The stock branch.
StockOutcome(row) ==
    IF row.TransType = Str("Stk") THEN LookupAmount(row.Shares) ELSE "ok"

StockKey(row) == <<row.Acct, row.Currency, row.Margin, row.Ticker>>

StockUpdates(row, date, amount) ==
    IF row.TransType = Str("Stk")
    THEN <<Update("stk_shares", StockKey(row), date,
                  parse_amount(row.Shares.val)),
           Update("stk_notional", StockKey(row), date, 0 - amount)>>
    ELSE <<>>

\* What process_transaction does with a row, in the order of its statements:
\*   outcome  "rejected" (no 'Acct': printed, returned), "ok", or the
\*            exception that ended it;
\*   appended whether the row was appended to self.transactions;
\*   dated    whether its date was parsed (and first_transaction_date seen);
\*   updates  the update_daily_balance calls made before it ended.
Result(out, app, dated, date, ups) ==
    [outcome |-> out, appended |-> app, dated |-> dated, date |-> date,
     updates |-> ups]

\* The lookups between the date and the first update: currency, margin,
\* type, amount, ticker, notes.
HeadOutcome(row) ==
    FirstError(<<Lookup(row.Currency), Lookup(row.Margin),
                 Lookup(row.TransType), LookupAmount(row.NetGains),
                 Lookup(row.Ticker),
                 IF row.Notes.tag = "none" THEN "AttributeError" ELSE "ok">>)

\* (Updates first that leave the cash balance out when an investment
\* was written.)
FirstUpdatesInvestmentOnly(row, date, amount) ==
    InvestmentUpdates(row, date, amount)
    \o (IF InvestmentUpdates(row, date, amount) = <<>>
        THEN <<Update("cash_balances", <<row.Acct, row.Currency>>, date, amount)>>
        ELSE <<>>)
    \o RevenueUpdates(row, date, amount)

\* The updates every row makes once its fields are read: investments (a
\* Cash row), cash_balances, revenue.
FirstUpdates(row, date, amount) ==
    InvestmentUpdates(row, date, amount)
    \o <<Update("cash_balances", <<row.Acct, row.Currency>>, date, amount)>>
    \o RevenueUpdates(row, date, amount)

\* The option and stock branches, after the updates first.
ClassifyBranches(row, date, amount, first) ==
    IF OptionOutcome(row) # "ok"
    THEN Result(OptionOutcome(row), TRUE, TRUE, date, first)
    ELSE IF StockOutcome(row) # "ok"
    THEN Result(StockOutcome(row), TRUE, TRUE, date,
                first \o OptionUpdates(row, date))
    ELSE Result("ok", TRUE, TRUE, date,
                first \o OptionUpdates(row, date)
                      \o StockUpdates(row, date, amount))

ClassifyAmount(row, date, amount) ==
    ClassifyBranches(row, date, amount, FirstUpdates(row, date, amount))

ClassifyDated(row, date) ==
    IF HeadOutcome(row) # "ok"
    THEN Result(HeadOutcome(row), TRUE, TRUE, date, <<>>)
    ELSE ClassifyAmount(row, date, parse_amount(row.NetGains.val))

ClassifyRow(row) ==
    IF row.Acct.tag = "absent"
    THEN Result("rejected", FALSE, FALSE, NoDate, <<>>)
    ELSE IF LookupDate(row.Date) # "ok"
    THEN Result(LookupDate(row.Date), TRUE, FALSE, NoDate, <<>>)
    ELSE ClassifyDated(row, DateVal(row.Date.val))

Classify(raw) == ClassifyRow(RenameBom(raw))

\* The ledger a classified row leaves: the row appended, the first
\* transaction date lowered, the updates applied.
Ingest(L, raw, today, c) ==
    [ledger  |-> [L EXCEPT
                    !.transactions =
                        IF c.appended THEN Append(@, RenameBom(raw)) ELSE @,
                    !.first_transaction_date =
                        IF c.dated /\ (@ = NoDate \/ c.date < @)
                        THEN c.date ELSE @,
                    !.daily_balances = ApplyUpdates(@, c.updates, today)],
     outcome |-> c.outcome,
     raised  |-> c.outcome \notin ({"ok", "rejected"} \cup Caught)]

\* TransactionData.process_transaction on ledger L at day today: the ledger
\* it leaves and how it ended. raised: the exception left the method.
process_transaction(L, raw, today) == Ingest(L, raw, today, Classify(raw))

\* -------------------------------------------------------------- process_csv

\* A CSV file that does not exist.
NoFile == [exists |-> FALSE, rows |-> <<>>]

File(rows) == [exists |-> TRUE, rows |-> rows]

\* The loop of process_csv over the rows the reader yields: an exception
\* that leaves process_transaction leaves the loop and process_csv.
RECURSIVE LoadRows(_, _, _)
LoadNext(r, rest, today) ==
    IF r.raised THEN [ledger |-> r.ledger, raised |-> TRUE]
    ELSE LoadRows(r.ledger, rest, today)

LoadRows(L, rows, today) ==
    IF rows = <<>> THEN [ledger |-> L, raised |-> FALSE]
    ELSE LoadNext(process_transaction(L, Head(rows), today), Tail(rows), today)

\* ------------------------------------------------- dimension enumeration

\* An lru_cache entry of one method for one ledger.
Miss == [hit |-> FALSE, val |-> {}]

Hit(v) == [hit |-> TRUE, val |-> v]

NoCache == [accounts |-> Miss, currencies |-> Miss, tickers |-> Miss]

\* The body of get_accounts: the accounts of the cash_balances keys.
AccountsOf(L) == {k[1] : k \in DOMAIN L.daily_balances["cash_balances"]}

\* The body of get_currencies.
CurrenciesOf(L) == {k[2] : k \in DOMAIN L.daily_balances["cash_balances"]}

\* The body of get_tickers.
TickersOf(L) ==
    {k[3] : k \in DOMAIN L.daily_balances["revenue"]}
    \cup {k[4] : k \in (DOMAIN L.daily_balances["opt_positions"])
                       \cup (DOMAIN L.daily_balances["stk_shares"])
                       \cup (DOMAIN L.daily_balances["stk_notional"])}

\* (An enumeration that is computed on every call.)
CachedUncached(entry, computed) == [result |-> computed, entry |-> Hit(computed)]

\* functools.lru_cache around a method without arguments: the value of the
\* first call is returned by every later call.
Cached(entry, computed) ==
    IF entry.hit THEN [result |-> entry.val, entry |-> entry]
    ELSE [result |-> computed, entry |-> Hit(computed)]

get_accounts(L, c) == Cached(c.accounts, AccountsOf(L))

get_currencies(L, c) == Cached(c.currencies, CurrenciesOf(L))

get_tickers(L, c) == Cached(c.tickers, TickersOf(L))

\* The three calls that end process_csv (their results are printed).
EnumerateAll(L, c) ==
    [accounts   |-> get_accounts(L, c).entry,
     currencies |-> get_currencies(L, c).entry,
     tickers    |-> get_tickers(L, c).entry]

\* The end of process_csv: last_update and the three enumerations, unless
\* the loop was left by an exception.
FinishCsv(r, c, today) ==
    IF r.raised
    THEN [ledger |-> r.ledger, cache |-> c, raised |-> TRUE]
    ELSE [ledger |-> [r.ledger EXCEPT !.last_update = today],
          cache  |-> EnumerateAll([r.ledger EXCEPT !.last_update = today], c),
          raised |-> FALSE]

\* TransactionData.process_csv on ledger L with cache c at day today.
process_csv(L, c, file, today) ==
    IF ~file.exists THEN [ledger |-> L, cache |-> c, raised |-> FALSE]
    ELSE FinishCsv(LoadRows(L, file.rows, today), c, today)

\* ----------------------------------------------------------------- queries

\* The tickers filter: None, or a list of tickers.
NoTickers == [given |-> FALSE, list |-> {}]

Tickers(list) == [given |-> TRUE, list |-> list]

Filters(account, currency, tickers, margin, investment_type) ==
    [account |-> account, currency |-> currency, tickers |-> tickers,
     margin |-> margin, investment_type |-> investment_type]

Unset(f) == f.tag = "none"

\* (A match that forgets the investment type.)
match_filters_untyped(key, cat, f) ==
    IF cat \in {"investments", "cash_balances"}
    THEN /\ (Unset(f.account) \/ key[1] = f.account)
         /\ (Unset(f.currency) \/ key[2] = f.currency)
    ELSE IF cat \in {"opt_positions", "opt_notional", "stk_shares", "stk_notional"}
    THEN /\ (Unset(f.account) \/ key[1] = f.account)
         /\ (Unset(f.currency) \/ key[2] = f.currency)
         /\ (Unset(f.margin) \/ key[3] = f.margin)
         /\ (~f.tickers.given \/ key[4] \in f.tickers.list)
    ELSE /\ cat = "revenue"
         /\ (Unset(f.account) \/ key[1] = f.account)
         /\ (Unset(f.currency) \/ key[2] = f.currency)
         /\ (~f.tickers.given \/ key[3] \in f.tickers.list)

\* TransactionData._match_filters
match_filters(key, cat, f) ==
    IF cat = "investments"
    THEN /\ (Unset(f.account) \/ key[1] = f.account)
         /\ (Unset(f.currency) \/ key[2] = f.currency)
         /\ (Unset(f.investment_type) \/ key[3] = f.investment_type)
    ELSE IF cat \in {"opt_positions", "opt_notional", "stk_shares", "stk_notional"}
    THEN /\ (Unset(f.account) \/ key[1] = f.account)
         /\ (Unset(f.currency) \/ key[2] = f.currency)
         /\ (Unset(f.margin) \/ key[3] = f.margin)
         /\ (~f.tickers.given \/ key[4] \in f.tickers.list)
    ELSE IF cat = "revenue"
    THEN /\ (Unset(f.account) \/ key[1] = f.account)
         /\ (Unset(f.currency) \/ key[2] = f.currency)
         /\ (~f.tickers.given \/ key[3] \in f.tickers.list)
    ELSE IF cat = "cash_balances"
    THEN /\ (Unset(f.account) \/ key[1] = f.account)
         /\ (Unset(f.currency) \/ key[2] = f.currency)
    ELSE FALSE

\* The sum of val[k] over the keys of the set ks.
RECURSIVE SumOver(_, _)
SumOver(ks, val) ==
    IF ks = {} THEN 0
    ELSE LET k == CHOOSE x \in ks : TRUE
         IN  val[k] + SumOver(ks \ {k}, val)

\* The keys get_spot_balance visits and keeps: those with an entry at the
\* date that match the filters.
SpotKeys(L, date, cat, f) ==
    {k \in DOMAIN L.daily_balances[cat] :
        /\ date \in DOMAIN L.daily_balances[cat][k]
        /\ match_filters(k, cat, f)}

\* (A breakdown that forgets the filters.)
SpotBreakdownUnfiltered(L, date, cat, f) ==
    [k \in {x \in DOMAIN L.daily_balances[cat] :
                date \in DOMAIN L.daily_balances[cat][x]} |->
        L.daily_balances[cat][k][date]]

\* The breakdown of get_spot_balance: the balance at the date of each key kept.
SpotBreakdown(L, date, cat, f) ==
    [k \in SpotKeys(L, date, cat, f) |-> L.daily_balances[cat][k][date]]

\* The total of get_spot_balance: the balances at the date of the keys kept,
\* added up as they are visited.
SpotTotal(L, date, cat, f) ==
    SumOver(SpotKeys(L, date, cat, f),
            [k \in DOMAIN L.daily_balances[cat] |->
                IF date \in DOMAIN L.daily_balances[cat][k]
                THEN L.daily_balances[cat][k][date] ELSE 0])

\* (A query that answers a name that is no category with an empty result.)
get_spot_balance_lenient(L, date, cat, f) ==
    [raised |-> FALSE,
     total |-> IF cat \in DOMAIN L.daily_balances
               THEN SpotTotal(L, date, cat, f) ELSE 0,
     breakdown |-> IF cat \in DOMAIN L.daily_balances
                   THEN SpotBreakdown(L, date, cat, f) ELSE EmptyMap,
     ledger |-> L]

\* (A query that reads daily_balance[date] without asking `date in
\* daily_balance` first: the defaultdict makes the entry.)
get_spot_balance_defaulting(L, date, cat, f) ==
    IF cat \notin DOMAIN L.daily_balances
    THEN [raised |-> TRUE, total |-> 0, breakdown |-> EmptyMap, ledger |-> L]
    ELSE [raised |-> FALSE,
          total |-> SpotTotal(L, date, cat, f),
          breakdown |-> SpotBreakdown(L, date, cat, f),
          ledger |->
              [L EXCEPT !.daily_balances[cat] =
                  [k \in DOMAIN L.daily_balances[cat] |->
                      [d \in (DOMAIN L.daily_balances[cat][k]) \cup {date} |->
                          IF d \in DOMAIN L.daily_balances[cat][k]
                          THEN L.daily_balances[cat][k][d] ELSE 0]]]]

\* TransactionData.get_spot_balance; raised stands for the ValueError of a
\* name that is no category, ledger for the instance the call leaves (it
\* writes nothing: the series are read with items() and `in`).
get_spot_balance(L, date, cat, f) ==
    IF cat \notin DOMAIN L.daily_balances
    THEN [raised |-> TRUE, total |-> 0, breakdown |-> EmptyMap, ledger |-> L]
    ELSE [raised |-> FALSE,
          total |-> SpotTotal(L, date, cat, f),
          breakdown |-> SpotBreakdown(L, date, cat, f),
          ledger |-> L]

\* A quotient of two floats, kept exact: num / den.
Ratio(num, den) == [num |-> num, den |-> den]

\* (A day count that leaves the end date out.)
DayCountExclusive(start_date, end_date) == end_date - start_date

\* day_count = (end_date - start_date).days + 1
DayCount(start_date, end_date) == end_date - start_date + 1

\* (A day's breakdown assigned over the sum instead of added to it.)
AccumulateAssign(acc, r) ==
    [total |-> acc.total + r.total,
     breakdown |->
        [k \in (DOMAIN acc.breakdown) \cup (DOMAIN r.breakdown) |->
            IF k \in DOMAIN r.breakdown THEN r.breakdown[k]
            ELSE acc.breakdown[k]],
     ledger |-> r.ledger]

\* One pass of the while loop of get_average_balance: the day's total and
\* breakdown added to the sums.
Accumulate(acc, r) ==
    [total |-> acc.total + r.total,
     breakdown |->
        [k \in (DOMAIN acc.breakdown) \cup (DOMAIN r.breakdown) |->
            (IF k \in DOMAIN acc.breakdown THEN acc.breakdown[k] ELSE 0)
            + (IF k \in DOMAIN r.breakdown THEN r.breakdown[k] ELSE 0)],
     ledger |-> r.ledger]

\* The while loop of get_average_balance from current_date to end_date.
RECURSIVE AverageLoop(_, _, _, _, _)
AverageLoop(acc, current_date, end_date, cat, f) ==
    IF current_date > end_date THEN acc
    ELSE AverageLoop(
             Accumulate(acc, get_spot_balance(acc.ledger, current_date, cat, f)),
             current_date + 1, end_date, cat, f)

\* The sums divided by the day count; a day count of 0 raises.
AverageOf(sums, day_count) ==
    IF day_count = 0
    THEN [raised |-> "ZeroDivisionError", total |-> Ratio(0, 1),
          breakdown |-> EmptyMap, ledger |-> sums.ledger]
    ELSE [raised |-> "",
          total |-> Ratio(sums.total, day_count),
          breakdown |-> [k \in DOMAIN sums.breakdown |->
                            Ratio(sums.breakdown[k], day_count)],
          ledger |-> sums.ledger]

\* TransactionData.get_average_balance; raised names the exception that
\* leaves it ("" when none).
get_average_balance(L, start_date, end_date, cat, f) ==
    IF cat \notin DOMAIN L.daily_balances
    THEN [raised |-> "ValueError", total |-> Ratio(0, 1),
          breakdown |-> EmptyMap, ledger |-> L]
    ELSE AverageOf(AverageLoop([total |-> 0, breakdown |-> EmptyMap,
                                ledger |-> L],
                               start_date, end_date, cat, f),
                   DayCount(start_date, end_date))

\* -------------------------------------------------------------------- rows

DigitChar(n) ==
    CASE n = 0 -> "0" [] n = 1 -> "1" [] n = 2 -> "2" [] n = 3 -> "3"
      [] n = 4 -> "4" [] n = 5 -> "5" [] n = 6 -> "6" [] n = 7 -> "7"
      [] n = 8 -> "8" [] n = 9 -> "9"

\* date.strftime('%Y-%m-%d') of a day number: two digits, zero padded.
DayText(d) == <<DigitChar(d \div 10), DigitChar(d % 10)>>

Row(acct, ticker, type, date, shares, strike, expiry, net, notes) ==
    [Acct |-> acct, Ticker |-> ticker, Currency |-> Str("USD"),
     Margin |-> Str("0%"), Date |-> date, TransType |-> type,
     Shares |-> shares, Strike |-> strike, Expiry |-> expiry,
     NetGains |-> net, Notes |-> notes]

\* A day no option of the model outlives ('9999-12-31' in the source).
FarDay == 99

\* A purchase of 2 shares of X for 5.00 on account A.
StkRow(d) ==
    Row(Str("A"), Str("X"), Str("Stk"), Txt(DayText(d)), Txt(<<"2">>),
        Txt(<<"0">>), Txt(DayText(FarDay)), Txt(<<"(", "5", ")">>), Txt(<<>>))

\* A permanent investment of 7.00 on account B.
CashRow(d) ==
    Row(Str("B"), Str(""), Str("Cash"), Txt(DayText(d)), Txt(<<"0">>),
        Txt(<<"0">>), Txt(DayText(FarDay)), Txt(<<"$", "7">>),
        Txt(<<"Invest", "-", "Pre Convert">>))

\* A short put on X, strike 3, one contract, premium 1.50; its date is
\* written without padding.
PutRow ==
    Row(Str("A"), Str("X"), Str("Put"), Txt(<<"1">>), Txt(<<"-", "1">>),
        Txt(<<"$", "3">>), Txt(DayText(9)), Txt(<<"1", ".", "5", "0">>),
        Txt(<<>>))

\* A temporary margin cover withdrawn from account A.
TempRow ==
    Row(Str("A"), Str(""), Str("Cash"), Txt(DayText(0)), Txt(<<"0">>),
        Txt(<<"0">>), Txt(DayText(FarDay)), Txt(<<"-", "4">>),
        Txt(<<"Margin Cover">>))

\* A fee of 1.00 charged to account A on day 1: a Cash row no investment
\* note matches.
FeeRow ==
    Row(Str("A"), Str(""), Str("Cash"), Txt(DayText(1)), Txt(<<"0">>),
        Txt(<<"0">>), Txt(DayText(FarDay)), Txt(<<"(", "1", ")">>), Txt(<<>>))

\* A sale of 1 share of X on account A on day 1 for 3.00, closing part of
\* the position StkRow opens.
CloseRow ==
    Row(Str("A"), Str("X"), Str("Stk"), Txt(DayText(1)), Txt(<<"-", "1">>),
        Txt(<<"0">>), Txt(DayText(FarDay)), Txt(<<"3">>), Txt(<<>>))

\* A call on X bought on day 0 for 2.00, one contract, expiry day 9, the
\* strike written as the text given.
CallRow(strike) ==
    Row(Str("A"), Str("X"), Str("Call"), Txt(DayText(0)), Txt(<<"1">>),
        Txt(strike), Txt(DayText(9)), Txt(<<"(", "2", ")">>), Txt(<<>>))

\* An income row of 1.00 on X, of the type given, on day 0.
IncomeRow(type) ==
    Row(Str("A"), Str("X"), Str(type), Txt(DayText(0)), Txt(<<"0">>),
        Txt(<<"0">>), Txt(DayText(FarDay)), Txt(<<"1">>), Txt(<<>>))

\* Rows of every transaction type, all well-formed.
TypeRows ==
    {StkRow(0), CloseRow, PutRow, CallRow(<<"0">>), CallRow(<<"(", "0", ")">>),
     IncomeRow("Cap Gains"), IncomeRow("Div"), IncomeRow("Int / Tax"),
     CashRow(0)}

\* A row of 2 shares of X for 5.00 on account A on day 0, of the type and
\* with the notes given.
NoteRow(type, notes) ==
    [StkRow(0) EXCEPT !.TransType = Str(type), !.Notes = Txt(notes)]

\* Notes with no marker, with one, and with two.
NoteChoices ==
    {<<>>, <<"Invest">>, <<"Invest", "-", "Pre Convert">>, <<"Margin Cover">>,
     <<"Short Term Juicing">>, <<"Personal Withdraw">>,
     <<"Margin Cover", "Personal Withdraw">>,
     <<"Invest", "Pre Convert", "Margin Cover">>}

\* Cash rows of every note, and rows of other types whose notes carry a
\* marker.
NoteRows ==
    {NoteRow("Cash", n) : n \in NoteChoices}
    \cup {NoteRow("Stk", <<"Invest", "-", "Pre Convert">>),
          NoteRow("Div", <<"Margin Cover">>)}

NoAcctRow == [StkRow(0) EXCEPT !.Acct = AbsentStr]

\* A row whose date is no date.
BadDateRow == [StkRow(0) EXCEPT !.Date = Txt(<<"x">>)]

\* An option row whose expiry is no date.
BadExpiryRow == [PutRow EXCEPT !.Expiry = Txt(<<"x">>)]

\* A stock row whose dictionary holds no 'Shares' key.
NoSharesRow == [StkRow(1) EXCEPT !.Shares = AbsentTxt]

\* A CSV line shorter than the header: csv.DictReader gives the missing
\* fields the value None.
ShortRow ==
    [StkRow(0) EXCEPT !.Date = NoneTxt, !.TransType = NoneStr,
                      !.Shares = NoneTxt, !.Strike = NoneTxt,
                      !.Expiry = NoneTxt, !.NetGains = NoneTxt,
                      !.Notes = NoneTxt]

GoodRows == {StkRow(0), StkRow(1), CashRow(0), PutRow, TempRow, FeeRow}

BadRows == {NoAcctRow, BadDateRow, BadExpiryRow, NoSharesRow, ShortRow}

Rows == GoodRows \cup BadRows

\* The sequences over S of length at most n.
RECURSIVE SeqsUpTo(_, _)
SeqsUpTo(S, n) ==
    IF n = 0 THEN {<<>>}
    ELSE LET shorter == SeqsUpTo(S, n - 1)
         IN  shorter \cup {Append(q, x) : q \in shorter, x \in S}

\* ---------------------------------------------------------------- the bot

\* The two registered users, in the order of the dictionary literal.
UserOrder == <<"MZ", "NT">>

Users == {UserOrder[i] : i \in 1..Len(UserOrder)}

\* The LOC values the environment holds (main.py reads them with os.getenv).
EnvLimit == 1000

EnvUsage == 250

\* (A dictionary whose instances are built without the LOC values.)
NewDictWithoutLoc == [u \in Users |-> NewLedger(0, 0)]

\* The dictionary literal of main.py: a new TransactionData for each user.
NewDict == [u \in Users |-> NewLedger(EnvLimit, EnvUsage)]

\* The value of USER_DATA_MAPPING when it is None; otherwise it is the
\* index in heap of the dictionary it names.
NoneRef == 0

\* A reference to a TransactionData instance: the dictionary of heap that
\* holds it and its key there. client.mz_data = None is NoInstance.
Instance(dict, user) == [dict |-> dict, user |-> user]

NoInstance == Instance(NoneRef, "")

\* One write of process_transaction to the instance: the row appended, the
\* first date set, a series looked up (and created), one day of a series
\* added to.
Step(op, cat, key, day, amount) ==
    [op |-> op, cat |-> cat, key |-> key, day |-> day, amount |-> amount]

\* The loop of update_daily_balance: one write for each day, in order.
RECURSIVE DayWrites(_, _)
DayWrites(u, days) ==
    IF days = {} THEN <<>>
    ELSE LET d == CHOOSE x \in days : \A y \in days : x <= y
         IN  <<Step("day", u.cat, u.key, d, u.amount)>>
             \o DayWrites(u, days \ {d})

RECURSIVE UpdateSteps(_, _)
UpdateSteps(ups, today) ==
    IF ups = <<>> THEN <<>>
    ELSE <<Step("series", Head(ups).cat, Head(ups).key, 0, 0)>>
         \o DayWrites(Head(ups), FillDays(Head(ups).date, today))
         \o UpdateSteps(Tail(ups), today)

TxStepsOf(c, today) ==
    (IF c.appended THEN <<Step("append", "", <<>>, 0, 0)>> ELSE <<>>)
    \o (IF c.dated THEN <<Step("date", "", <<>>, c.date, 0)>> ELSE <<>>)
    \o UpdateSteps(c.updates, today)

\* The writes process_transaction makes for a row, in order.
TxSteps(raw, today) == TxStepsOf(Classify(raw), today)

\* self.daily_balances[balance_type][key]: the defaultdict creates the series.
OpenSeries(db, cat, key) ==
    IF key \in DOMAIN db[cat] THEN db
    ELSE [db EXCEPT ![cat] =
            [k \in (DOMAIN db[cat]) \cup {key} |->
                IF k = key THEN EmptyMap ELSE db[cat][k]]]

\* daily_balance[day] += amount
WriteDay(db, cat, key, day, amount) ==
    [db EXCEPT ![cat][key] =
        [d \in (DOMAIN db[cat][key]) \cup {day} |->
            IF d = day
            THEN (IF day \in DOMAIN db[cat][key] THEN db[cat][key][day] ELSE 0)
                 + amount
            ELSE db[cat][key][d]]]

\* One write of process_transaction for the row raw applied to ledger L.
ApplyStep(L, s, raw) ==
    CASE s.op = "append" ->
            [L EXCEPT !.transactions = Append(@, RenameBom(raw))]
      [] s.op = "date" ->
            [L EXCEPT !.first_transaction_date =
                        IF @ = NoDate \/ s.day < @ THEN s.day ELSE @]
      [] s.op = "series" ->
            [L EXCEPT !.daily_balances = OpenSeries(@, s.cat, s.key)]
      [] s.op = "day" ->
            [L EXCEPT !.daily_balances =
                        WriteDay(@, s.cat, s.key, s.day, s.amount)]

\* Whether the exception a row ends with leaves process_transaction.
Raises(raw) == Classify(raw).outcome \notin ({"ok", "rejected"} \cup Caught)

\* The arguments of update_env_values, as texts, and whether its float()
\* raised.
Loc(limit, usage, failed) == [limit |-> limit, usage |-> usage, failed |-> failed]

NoLoc == Loc(<<>>, <<>>, FALSE)

\* The instance after update_env_values, were both fields set at once and
\* only when both values are numbers.
LocUpdated(L, loc) ==
    IF Float(loc.limit).ok /\ Float(loc.usage).ok
    THEN [L EXCEPT !.LOCLimit = Float(loc.limit).val,
                   !.LOCUsage = Float(loc.usage).val]
    ELSE L

\* The event loop between two handlers.
MainIdle(confirms, refreshes) ==
    [pc |-> "idle", user |-> "", by |-> "", dict |-> NoneRef, users |-> <<>>,
     rows |-> <<>>, todo |-> <<>>, pre |-> NewLedger(EnvLimit, EnvUsage),
     refresh |-> FALSE, old |-> NoneRef,
     confirms |-> confirms, refreshes |-> refreshes,
     loc |-> NoLoc, locs |-> 0]

\* What the job read last: nothing yet, a name bound to None ("missing"),
\* or the ledger L of a user, with the ledgers before and after the
\* transaction under way on it (pre, post) and before and after the refresh
\* under way (old, new); each is L when there is none under way.
Seen(kind, user, L, pre, post, old, new) ==
    [kind |-> kind, user |-> user, L |-> L, pre |-> pre, post |-> post,
     old |-> old, new |-> new]

SeenNothing ==
    Seen("none", "", NewLedger(EnvLimit, EnvUsage),
         NewLedger(EnvLimit, EnvUsage), NewLedger(EnvLimit, EnvUsage),
         NewLedger(EnvLimit, EnvUsage), NewLedger(EnvLimit, EnvUsage))

\* The scheduler's thread between two runs of the job.
JobIdle(runs, seen) ==
    [pc |-> "idle", dict |-> NoneRef, users |-> <<>>, runs |-> runs,
     seen |-> seen]

\* The ledgers process_csv builds from the files, each from a new instance.
Rebuilt(files, u, today) ==
    process_csv(NewLedger(EnvLimit, EnvUsage), NoCache, File(files[u]), today).ledger

\* ------------------------------------------- Close_Position and Assigned

\* The number of workflows opened, and the largest quantity typed in a form.
MaxForms == 2
MaxShares == 3

\* The text of a natural number.
RECURSIVE NatText(_)
NatText(n) ==
    IF n < 10 THEN <<DigitChar(n)>>
    ELSE Append(NatText(n \div 10), DigitChar(n % 10))

Abs(x) == IF x < 0 THEN 0 - x ELSE x

Sign(x) == IF x < 0 THEN <<"-">> ELSE <<>>

\* f"{int(value)}"
IntFormat(val) == Sign(val) \o NatText(Abs(val) \div Scale)

\* f"{value:.2f}" (and f"{value:,.2f}" below a thousand)
FixedFormat(val) ==
    Sign(val) \o NatText(Abs(val) \div Scale)
    \o <<".", DigitChar((Abs(val) % Scale) \div 10), DigitChar(Abs(val) % 10)>>

\* format_number on a number.
format_number(val, is_currency) ==
    IF is_currency THEN <<"$">> \o FixedFormat(val)
    ELSE IF val % Scale = 0 THEN IntFormat(val)
    ELSE FixedFormat(val)

\* str(x) of a float: the shortest decimal, with one digit after the point
\* at least.
FloatStr(f) ==
    (IF f.minus THEN <<"-">> ELSE <<>>)
    \o NatText(Abs(f.digits) \div Scale)
    \o <<".", DigitChar((Abs(f.digits) % Scale) \div 10)>>
    \o (IF Abs(f.digits) % 10 = 0 THEN <<>> ELSE <<DigitChar(Abs(f.digits) % 10)>>)

\* format_number on a text: float() of the text without commas and dollar
\* signs, formatted; the text itself when float() raises ValueError.
format_number_str(text, is_currency) ==
    LET f == Float(SelectSeq(text, LAMBDA c : c \notin {",", "$"}))
    IN  IF f.ok THEN format_number(f.val, is_currency) ELSE text

\* parse_number: 0 when float() raises ValueError.
parse_number(text) ==
    LET f == Float(SelectSeq(text, LAMBDA c : c \notin {",", "$"}))
    IN  IF f.ok THEN f.val ELSE 0

\* value[max(value.keys())]
Latest(series) ==
    series[CHOOSE d \in DOMAIN series : \A e \in DOMAIN series : e <= d]

\* The series get_outstanding_positions looks up with value[max(value.keys())]:
\* those of opt_positions and stk_shares. max() of no keys raises ValueError.
LatestLookupFails(L) ==
    \E c \in {"opt_positions", "stk_shares"} :
       \E k \in DOMAIN L.daily_balances[c] :
          DOMAIN L.daily_balances[c][k] = {}

\* The latest value of a series of the ledger, 0 when there is none.
LatestOf(L, s) ==
    IF s[2] \in DOMAIN L.daily_balances[s[1]]
       /\ DOMAIN L.daily_balances[s[1]][s[2]] # {}
    THEN Latest(L.daily_balances[s[1]][s[2]])
    ELSE 0

\* The series get_outstanding_positions lists: those whose latest value is
\* not 0.
OutstandingSeries(L) ==
    {<<c, k>> : c \in {"opt_positions"},
                k \in {x \in DOMAIN L.daily_balances["opt_positions"] :
                          Latest(L.daily_balances["opt_positions"][x]) # 0}}
    \cup
    {<<c, k>> : c \in {"stk_shares"},
                k \in {x \in DOMAIN L.daily_balances["stk_shares"] :
                          Latest(L.daily_balances["stk_shares"][x]) # 0}}

\* The dictionary get_outstanding_positions builds for a series.
Position(L, cat, k) ==
    IF cat = "opt_positions"
    THEN [Acct |-> k[1], Ticker |-> k[4], Currency |-> k[2], Margin |-> k[3],
          Type |-> k[5], Shares |-> Latest(L.daily_balances[cat][k]),
          Strike |-> FloatStr(k[6]), Expiry |-> DayText(k[7]),
          NetGains |-> <<>>]
    ELSE [Acct |-> k[1], Ticker |-> k[4], Currency |-> k[2], Margin |-> k[3],
          Type |-> Str("Stk"), Shares |-> Latest(L.daily_balances[cat][k]),
          Strike |-> <<"0">>, Expiry |-> DayText(FarDay),
          NetGains |->
             format_number(
                IF k \in DOMAIN L.daily_balances["stk_notional"]
                THEN Latest(L.daily_balances["stk_notional"][k]) ELSE 0,
                TRUE)]

\* get_outstanding_positions, each position with the series it was read
\* from.
get_outstanding_positions(L) ==
    {[position |-> Position(L, s[1], s[2]), series |-> s] :
        s \in OutstandingSeries(L)}

\* A transaction a workflow builds from a position.
Closing(position, type, date, shares, strike, expiry, net, notes) ==
    [Acct |-> position.Acct, Ticker |-> position.Ticker,
     Currency |-> position.Currency, Margin |-> position.Margin,
     Date |-> Txt(date), TransType |-> type, Shares |-> Txt(shares),
     Strike |-> Txt(strike), Expiry |-> Txt(expiry), NetGains |-> Txt(net),
     Notes |-> Txt(notes)]

\* The quantity of a closing row, -shares, whatever the sign of the
\* position.
ClosingShares(shares) == 0 - shares * Scale

create_option_closing_transaction(position, date, shares, closing_costs) ==
    Closing(position, position.Type, DayText(date),
            format_number(ClosingShares(shares), FALSE),
            format_number_str(position.Strike, FALSE), position.Expiry,
            format_number(0 - closing_costs, TRUE), <<>>)

\* total_notional * (shares / total_shares), to the cent.
Proportional(position, shares) ==
    (2 * Abs(parse_number(position.NetGains)) * shares * Scale
       + Abs(position.Shares))
    \div (2 * Abs(position.Shares))

create_stock_closing_transactions(position, date, shares, closing_gains) ==
    <<Closing(position, Str("Stk"), DayText(date),
              format_number(ClosingShares(shares), FALSE),
              <<"0">>, DayText(FarDay),
              format_number(Proportional(position, shares), TRUE), <<>>),
      Closing(position, Str("Cap Gains"), DayText(date), <<"0">>, <<"0">>,
              DayText(FarDay),
              format_number(closing_gains - Proportional(position, shares),
                            TRUE), <<>>)>>

\* ClosePositionHandler.process_form once the bound is passed.
ClosePositionForm(position, date, shares, closing_value) ==
    IF position.Type = Str("Stk")
    THEN create_stock_closing_transactions(position, date, shares, closing_value)
    ELSE <<create_option_closing_transaction(position, date, shares,
                                             closing_value)>>

\* AssignedHandler.process_form: the option row and the stock row.
AssignedForm(position, date, shares, purchase_cost) ==
    <<Closing(position, position.Type, DayText(date),
              format_number(ClosingShares(shares), FALSE),
              position.Strike, position.Expiry, <<"0">>,
              <<"Option assigned">>),
      Closing(position, Str("Stk"), DayText(date),
              format_number(shares * Scale, FALSE), <<"0">>, DayText(FarDay),
              format_number(0 - purchase_cost, FALSE),
              <<"Stock from assigned option">>)>>

\* The closing value and the purchase cost typed in the forms.
ClosingValue == 3 * Scale
PurchaseCost == 6 * Scale

\* A call option on X bought on day 0, two contracts, and a put sold on
\* day 0, two contracts.
LongCall == [CallRow(<<"3">>) EXCEPT !.Shares = Txt(<<"2">>)]

ShortPut ==
    [PutRow EXCEPT !.Date = Txt(DayText(0)), !.Shares = Txt(<<"-", "2">>)]

\* The positions a file opens.
PositionRows == {LongCall, ShortPut, StkRow(0)}

\* No ConfirmView confirmed yet. Of the last one confirmed: the workflow,
\* the series of its position, the quantity of the form, and the latest
\* value of the series before and after its transactions.
NoApplied ==
    [done |-> FALSE, kind |-> "", series |-> <<>>, shares |-> 0,
     shown |-> 0, before |-> 0, after |-> 0, dated |-> 0, today |-> 0]

\* No workflow opened: no modal shown, no ConfirmView waiting.
NoWorkflows ==
    [modals |-> {}, views |-> {}, opened |-> 0, rejected |-> FALSE,
     applied |-> NoApplied]

\* -------------------------------------------------------- get_live_prices

\* The largest max_retries get_live_prices is called with (3 by default).
MaxRetries == 3

\* Before the call. In a call: pc is the statement it stands at, attempt
\* the loop variable, calls the attempts made for each fetch, first the
\* number of the attempt that first succeeded (0: none yet), all_prices
\* what the dictionary holds, raised whether an exception left the call.
NoFetch ==
    [pc |-> "idle", max_retries |-> 0, attempt |-> 0,
     calls |-> [stocks |-> 0, options |-> 0],
     first |-> [stocks |-> 0, options |-> 0],
     all_prices |-> {}, raised |-> FALSE, returned |-> FALSE]

\* The loop that follows the loop of a fetch.
AfterLoop(pc) == IF pc = "stocks" THEN "options" ELSE "return"

\* (A success that does not leave the loop.)
NoBreak(f, what) == [f EXCEPT !.attempt = @ + 1]

\* break: the loop is left for the statement after it.
Break(f, what) == [f EXCEPT !.pc = AfterLoop(what), !.attempt = 0]

\* One attempt is under way: the loop variable is in range(max_retries).
Attempting(f, what) == f.pc = what /\ f.attempt < f.max_retries

\* The attempt counted.
Counted(f, what) == [f EXCEPT !.calls[what] = @ + 1]

\* The try body ran to its end: the prices are in all_prices, break.
Succeeded(f, what) ==
    Break([Counted(f, what) EXCEPT
              !.first[what] = IF @ = 0 THEN f.calls[what] + 1 ELSE @,
              !.all_prices = @ \cup {what}],
          what)

\* The try body raised (the fetch, or the code that reads its result, which
\* for options may have stored some prices already): the handler prints,
\* sleeps 2 ** attempt seconds, and the loop goes on.
Failed(f, what, some) ==
    [Counted(f, what) EXCEPT
        !.attempt = @ + 1,
        !.all_prices = IF some THEN @ \cup {"some options"} ELSE @]

\* ------------------------------------------------------------ Delete_Last

\* The number of Delete_Last commands.
MaxDelete == 1

\* No DeleteConfirmView yet. A view holds the csv_path (the user whose file
\* it is) and the last_trade it displays; by is the user it was shown to,
\* removed the row its confirmation popped from the file.
NoDeleteView ==
    [shown |-> FALSE, by |-> "", csv_path |-> "", last_trade |-> <<>>,
     done |-> FALSE, removed |-> <<>>, raised |-> FALSE, count |-> 0]

\* get_last_trade: trades[-1] if trades else None (a one-element sequence,
\* or the empty sequence for None).
get_last_trade(rows) == IF rows = <<>> THEN <<>> ELSE <<rows[Len(rows)]>>

\* delete_last_trade: trades.pop(), and the file written back.
delete_last_trade(rows, shown) == SubSeq(rows, 1, Len(rows) - 1)

\* ------------------------------------------------------------- the ledger

VARIABLES
    now,      \* the wall clock's day
    ledger,   \* the TransactionData instance
    cache,    \* the lru_cache entries of its enumeration methods
    last,     \* the last ingestion: what it was given and the ledger before it
    heap,               \* the dictionaries of ledgers main.py has built
    USER_DATA_MAPPING,  \* the global of main.py: a dictionary of heap, or None
    csv,                \* the rows of each user's transaction file
    main,               \* the event loop's thread: where its handler stands
    job,                \* the scheduler's thread: its job and what it read
    mz_data,            \* client.mz_data: the instance the last command bound
    view,               \* the user whose ConfirmView is shown ("" when none)
    cash64,             \* one cash_balances series as the interpreter holds
                        \* it: day -> binary64
    listed,             \* the list object lru_cache holds for get_accounts,
                        \* and the list the last call returned
    parsed,             \* the last call of parse_amount: argument and outcome
    fetch,              \* a call of get_live_prices: where it stands
    delete_view,        \* the DeleteConfirmView of the last Delete_Last
    workflows           \* the modals and ConfirmViews of the trade workflows

vars ==
    <<now, ledger, cache, last, heap, USER_DATA_MAPPING, csv, main, job,
      mz_data, view, cash64, listed, parsed, fetch,
      delete_view, workflows>>

\* The variables only the specifications of their own section change.
apart == <<cash64, listed, parsed, fetch, delete_view, workflows>>

\* The variables of a trade workflow.
flow == <<mz_data, view>>

\* The variables of the bot's two threads.
bot == <<heap, USER_DATA_MAPPING, csv, main, job, flow, apart>>

\* The variables of one ledger taken alone.
single == <<ledger, cache, last, apart>>

Init ==
    /\ now = 0
    /\ ledger = NewLedger(EnvLimit, EnvUsage)
    /\ cache = NoCache
    /\ last = [op |-> "init", rows |-> <<>>, pre |-> ledger, today |-> 0,
               outcome |-> "ok", raised |-> FALSE, n |-> 0]
    /\ heap = <<NewDict>>
    /\ USER_DATA_MAPPING = 1
    /\ csv = [u \in Users |-> <<>>]
    /\ main = MainIdle(0, 0)
    /\ job = JobIdle(0, SeenNothing)
    /\ mz_data = NoInstance
    /\ view = ""
    /\ cash64 = EmptyMap
    /\ listed = [list |-> <<>>, returned |-> <<>>]
    /\ parsed = [called |-> FALSE, arg |-> NoneTxt, raised |-> "", val |-> 0]
    /\ fetch = NoFetch
    /\ delete_view = NoDeleteView
    /\ workflows = NoWorkflows

\* The ledger, the cache and the record of an ingestion that ended as r.
Ingested(op, rows, r, c, n, outcome) ==
    /\ ledger' = r.ledger
    /\ cache' = c
    /\ last' = [op |-> op, rows |-> rows, pre |-> ledger, today |-> now,
                outcome |-> outcome, raised |-> r.raised, n |-> n]

Loaded(file, r) ==
    Ingested("load", file.rows, r, r.cache, Len(file.rows),
             IF file.exists THEN "ok" ELSE "nofile")

\* process_csv on a new instance: the startup loop of main.py, and the loop
\* of /gre refresh, where an exception that leaves it is logged by the
\* command and the bot goes on.
ProcessCsv(file) ==
    /\ last.op = "init"
    /\ Loaded(file, process_csv(ledger, cache, file, now))
    /\ UNCHANGED <<now, bot>>

Appended(row, r) == Ingested("append", <<row>>, r, cache, last.n + 1, r.outcome)

\* ConfirmView.confirm for one transaction: process_transaction on the
\* ledger (an exception leaves the handler; the bot goes on).
Confirm(row) ==
    /\ last.op # "init"
    /\ last.n < MaxTx
    /\ Appended(row, process_transaction(ledger, row, now))
    /\ UNCHANGED <<now, bot>>

\* A command that calls get_accounts (the commands call no other
\* enumeration).
GetAccounts ==
    /\ cache' = [cache EXCEPT !.accounts = get_accounts(ledger, cache).entry]
    /\ UNCHANGED <<now, ledger, last, bot>>

\* Midnight passes.
Tick ==
    /\ now < MaxDay
    /\ now' = now + 1
    /\ UNCHANGED <<single, bot>>

Next ==
    \/ \E rows \in SeqsUpTo(Rows, MaxCsv) : ProcessCsv(File(rows))
    \/ ProcessCsv(NoFile)
    \/ \E row \in Rows : Confirm(row)
    \/ GetAccounts
    \/ Tick

Spec == Init /\ [][Next]_vars

\* The ledger under well-formed rows only, for the claims about queries:
\* the same startup load, confirmations and clock.
NextQuery ==
    \/ \E rows \in SeqsUpTo(GoodRows, MaxCsv) : ProcessCsv(File(rows))
    \/ \E row \in GoodRows : Confirm(row)
    \/ Tick

SpecQuery == Init /\ [][NextQuery]_vars

\* The ledger under rows of every transaction type: the same startup load,
\* confirmations and clock.
NextTypes ==
    \/ \E rows \in SeqsUpTo(TypeRows, MaxCsv) : ProcessCsv(File(rows))
    \/ \E row \in TypeRows : Confirm(row)
    \/ Tick

SpecTypes == Init /\ [][NextTypes]_vars

\* The ledger under rows that differ in their notes.
NextNotes ==
    \/ \E rows \in SeqsUpTo(NoteRows, MaxCsv) : ProcessCsv(File(rows))
    \/ \E row \in NoteRows : Confirm(row)
    \/ Tick

SpecNotes == Init /\ [][NextNotes]_vars

\* The ledger under one row for each group of categories (stock; cash and
\* investments; options and revenue), for the claims that ask every query.
ReadRows == {StkRow(0), CashRow(0), PutRow}

NextRead ==
    \/ \E rows \in SeqsUpTo(ReadRows, MaxCsv) : ProcessCsv(File(rows))
    \/ \E row \in ReadRows : Confirm(row)
    \/ Tick

SpecRead == Init /\ [][NextRead]_vars

\* The ledger as the queries read it: the same load, confirmations and
\* clock; a query reads the ledger and the date only, so of the last
\* ingestion only the count of rows is kept.
AskLoad(file) ==
    /\ last.op = "init"
    /\ ledger' = process_csv(ledger, cache, file, now).ledger
    /\ cache' = process_csv(ledger, cache, file, now).cache
    /\ last' = [last EXCEPT !.op = "load", !.n = Len(file.rows)]
    /\ UNCHANGED <<now, bot>>

AskConfirm(row) ==
    /\ last.op # "init"
    /\ last.n < MaxTx
    /\ ledger' = process_transaction(ledger, row, now).ledger
    /\ last' = [last EXCEPT !.op = "append", !.n = last.n + 1]
    /\ UNCHANGED <<now, cache, bot>>

NextAsk ==
    \/ \E rows \in SeqsUpTo(GoodRows, MaxCsv) : AskLoad(File(rows))
    \/ \E row \in GoodRows : AskConfirm(row)
    \/ Tick

SpecAsk == Init /\ [][NextAsk]_vars

\* ------------------------------------------------- the ledger in binary64

\* The number of rows the ledger of SpecFloat ingests.
MaxSum == 3

\* A cash movement of the amount text on account B, day 0, with no note:
\* process_transaction updates cash_balances[("B", "USD")] and nothing else.
AmountRow(text) ==
    [CashRow(0) EXCEPT !.NetGains = Txt(text), !.Notes = Txt(<<>>)]

AmountTexts ==
    {<<"0", ".", "1", "0">>, <<"0", ".", "2", "0">>, <<"0", ".", "3", "0">>,
     <<"0", ".", "7", "0">>, <<"$", "5">>}

AmountRows == {AmountRow(t) : t \in AmountTexts}

\* update_daily_balance on one series of binary64 values: daily_balance[day]
\* += amount for each day from the date to today, a new day starting at 0.0.
update_daily_balance64(series, date, amount, today) ==
    [d \in (DOMAIN series) \cup FillDays(date, today) |->
        IF d \in FillDays(date, today)
        THEN FloatAdd(IF d \in DOMAIN series THEN series[d] ELSE Zero64, amount)
        ELSE series[d]]

\* The cash_balances update of process_transaction for each row in turn:
\* amount = parse_amount(transaction['Net Gains']), a float.
RECURSIVE Ingest64(_, _, _)
Ingest64(series, rows, today) ==
    IF rows = <<>> THEN series
    ELSE Ingest64(
            update_daily_balance64(series, DateVal(Head(rows).Date.val),
                                   Binary64(parse_amount(Head(rows).NetGains.val)),
                                   today),
            Tail(rows), today)

\* process_csv on a new instance, the cash series followed in binary64.
FloatLoad(file) ==
    /\ last.op = "init"
    /\ Loaded(file, process_csv(ledger, cache, file, now))
    /\ cash64' = Ingest64(cash64, file.rows, now)
    /\ UNCHANGED <<now, heap, USER_DATA_MAPPING, csv, main, job, flow, listed,
                   parsed, fetch, delete_view,
                   workflows>>

\* process_transaction for one more row, the cash series followed in
\* binary64.
FloatConfirm(row) ==
    /\ last.op # "init"
    /\ last.n < MaxSum
    /\ Appended(row, process_transaction(ledger, row, now))
    /\ cash64' = Ingest64(cash64, <<row>>, now)
    /\ UNCHANGED <<now, heap, USER_DATA_MAPPING, csv, main, job, flow, listed,
                   parsed, fetch, delete_view,
                   workflows>>

NextFloat ==
    \/ \E rows \in SeqsUpTo(AmountRows, MaxCsv) : FloatLoad(File(rows))
    \/ \E row \in AmountRows : FloatConfirm(row)

SpecFloat == Init /\ [][NextFloat]_vars

\* ------------------------------------------------- parse_amount by itself

\* The longest text of the alphabet that parse_amount is given.
MaxText == 3

\* The characters of an amount field.
AmountChars == {"$", ",", "(", ")", "-", ".", "5", " "}

\* The examples of the specification.
AmountExamples ==
    {<<"$", "1", ",", "2", "3", "4", ".", "5", "6">>,
     <<"(", "5", "0", "0", ".", "0", "0", ")">>,
     <<"-">>, <<"$", "-">>}

\* What parse_amount is given: a text, or None (a short CSV line).
AmountArgs ==
    {Txt(t) : t \in SeqsUpTo(AmountChars, MaxText) \cup AmountExamples}
    \cup {NoneTxt}

\* One call of parse_amount: value.strip() raises AttributeError on None;
\* on a text the ValueError of float() is caught and nothing else raises.
ParseAmount(f) ==
    /\ ~parsed.called
    /\ parsed' = [called |-> TRUE, arg |-> f,
                  raised |-> IF LookupAmount(f) = "ok" THEN ""
                             ELSE LookupAmount(f),
                  val    |-> IF LookupAmount(f) = "ok" THEN parse_amount(f.val)
                             ELSE 0]
    /\ UNCHANGED <<now, ledger, cache, last, heap, USER_DATA_MAPPING, csv, main,
                   job, flow, cash64, listed, fetch, delete_view,
                   workflows>>

NextParse == \E f \in AmountArgs : ParseAmount(f)

SpecParse == Init /\ [][NextParse]_vars

\* ------------------------------------------- get_live_prices, step by step

FetchStep(f) ==
    /\ fetch' = f
    /\ UNCHANGED <<now, ledger, cache, last, heap, USER_DATA_MAPPING, csv, main,
                   job, flow, cash64, listed, parsed, delete_view,
                   workflows>>

\* calculate_daily_risk calls get_live_prices.
GetLivePrices(max_retries) ==
    /\ fetch.pc = "idle"
    /\ FetchStep([NoFetch EXCEPT !.pc = "stocks", !.max_retries = max_retries])

AttemptSucceeds(what) ==
    /\ Attempting(fetch, what)
    /\ FetchStep(Succeeded(fetch, what))

AttemptFails(what, some) ==
    /\ Attempting(fetch, what)
    /\ what = "stocks" => ~some
    /\ FetchStep(Failed(fetch, what, some))

\* range(max_retries) is exhausted: the for statement ends.
LoopEnds(what) ==
    /\ fetch.pc = what
    /\ fetch.attempt >= fetch.max_retries
    /\ FetchStep([fetch EXCEPT !.pc = AfterLoop(what), !.attempt = 0])

\* return all_prices
Return ==
    /\ fetch.pc = "return"
    /\ FetchStep([fetch EXCEPT !.pc = "done", !.returned = TRUE])

FetchMoves ==
    \/ \E what \in {"stocks", "options"} : AttemptSucceeds(what)
    \/ \E what \in {"stocks", "options"}, some \in BOOLEAN :
          AttemptFails(what, some)
    \/ \E what \in {"stocks", "options"} : LoopEnds(what)
    \/ Return

NextFetch ==
    \/ \E m \in 0..MaxRetries : GetLivePrices(m)
    \/ FetchMoves

SpecFetch == Init /\ [][NextFetch]_vars

\* The call is one thread's sequential code: a fetch returns or raises, a
\* sleep ends, so a statement that is reached is executed.
SpecFetchLive == SpecFetch /\ WF_vars(FetchMoves)

\* -------------------------------------------- the callers of get_accounts

\* list(set(...)): the elements of S once each, in the order the set's
\* iteration gives them (any order: string hashes differ from run to run).
ListsOf(S) ==
    {q \in [1..Cardinality(S) -> S] :
        \A i, j \in 1..Cardinality(S) : q[i] = q[j] => i = j}

\* The order of two account names (fields of a key) as str compares them.
Before(a, b) ==
    \/ a = b
    \/ a.val = "A"
    \/ a.val = "B" /\ b.val # "A"

\* list.sort() on a list without repeats.
Sorted(q) ==
    CHOOSE r \in ListsOf({q[i] : i \in 1..Len(q)}) :
        \A i, j \in 1..Len(r) : i <= j => Before(r[i], r[j])

\* process_csv on a new instance; its last lines call get_accounts, and on
\* a miss lru_cache keeps the list object the call built.
CallerLoad(file) ==
    /\ last.op = "init"
    /\ Loaded(file, process_csv(ledger, cache, file, now))
    /\ \E q \in (IF cache.accounts.hit THEN {listed.list}
                 ELSE ListsOf(AccountsOf(
                          process_csv(ledger, cache, file, now).ledger))) :
           listed' = [list |-> q, returned |-> q]
    /\ UNCHANGED <<now, heap, USER_DATA_MAPPING, csv, main, job, flow, cash64,
                   parsed, fetch, delete_view,
                   workflows>>

\* revenue_command (and the account summary after it): accounts =
\* transaction_data.get_accounts(); accounts.sort(). The call returns the
\* object the cache holds and the sort reorders that object in place; the
\* rest of the command reads balances and writes nothing.
RevenueCommand ==
    /\ cache' = [cache EXCEPT !.accounts = get_accounts(ledger, cache).entry]
    /\ \E q \in (IF cache.accounts.hit THEN {listed.list}
                 ELSE ListsOf(AccountsOf(ledger))) :
           listed' = [list |-> Sorted(q), returned |-> q]
    /\ UNCHANGED <<now, ledger, last, heap, USER_DATA_MAPPING, csv, main, job,
                   flow, cash64, parsed, fetch, delete_view,
                   workflows>>

NextCaller ==
    \/ \E rows \in SeqsUpTo(GoodRows, MaxCsv) : CallerLoad(File(rows))
    \/ \E row \in GoodRows : Confirm(row)
    \/ RevenueCommand

SpecCaller == Init /\ [][NextCaller]_vars

\* ------------------------------------------------------------ the threads

MaxConfirm == 1

MaxRefresh == 1

MaxRuns == 1

\* The files the users' paths hold when the bot starts.
StartFiles ==
    {[u \in Users |-> IF u = "MZ" THEN <<StkRow(0)>> ELSE <<CashRow(0)>>],
     [u \in Users |-> IF u = "MZ" THEN <<PutRow>> ELSE <<>>]}

\* The bot when client.run starts: the dictionary built and every file loaded.
InitBot ==
    /\ now \in Days
    /\ ledger = NewLedger(EnvLimit, EnvUsage)
    /\ cache = NoCache
    /\ last = [op |-> "init", rows |-> <<>>, pre |-> ledger, today |-> 0,
               outcome |-> "ok", raised |-> FALSE, n |-> 0]
    /\ csv \in StartFiles
    /\ heap = <<[u \in Users |-> Rebuilt(csv, u, now)]>>
    /\ USER_DATA_MAPPING = 1
    /\ main = MainIdle(0, 0)
    /\ job = JobIdle(0, SeenNothing)
    /\ mz_data = NoInstance
    /\ view = ""
    /\ cash64 = EmptyMap
    /\ listed = [list |-> <<>>, returned |-> <<>>]
    /\ parsed = [called |-> FALSE, arg |-> NoneTxt, raised |-> "", val |-> 0]
    /\ fetch = NoFetch
    /\ delete_view = NoDeleteView
    /\ workflows = NoWorkflows

\* The handler starts process_transaction for the row raw on the ledger L
\* of user u.
StartRow(u, raw, L) ==
    [main EXCEPT !.pc = "tx", !.user = u, !.todo = TxSteps(raw, now),
                 !.pre = L]

\* The /transaction command: client.mz_data is bound to the instance the
\* mapping holds for the user; opens tells whether the command's workflow
\* goes on to show the user a ConfirmView.
Transaction(u, opens) ==
    /\ main.pc = "idle"
    /\ USER_DATA_MAPPING # NoneRef
    /\ mz_data' = Instance(USER_DATA_MAPPING, u)
    /\ view' = IF opens THEN u ELSE view
    /\ UNCHANGED <<now, single, heap, USER_DATA_MAPPING, csv, main, job>>

\* ConfirmView.confirm, pressed by the view's user: append_transaction
\* writes the row to the file of interaction.client.mz_data, then
\* process_transaction starts on that instance.
ConfirmBegin(row) ==
    /\ main.pc = "idle"
    /\ main.confirms < MaxConfirm
    /\ view # ""
    /\ mz_data # NoInstance
    /\ csv' = [csv EXCEPT ![mz_data.user] = Append(@, row)]
    /\ main' = [StartRow(mz_data.user, row, heap[mz_data.dict][mz_data.user])
                  EXCEPT !.dict = mz_data.dict, !.rows = <<row>>,
                         !.by = view, !.confirms = @ + 1]
    /\ view' = ""
    /\ UNCHANGED <<now, single, heap, USER_DATA_MAPPING, job, mz_data>>

\* The next write of process_transaction.
TxStep ==
    /\ main.pc = "tx"
    /\ main.todo # <<>>
    /\ heap' = [heap EXCEPT ![main.dict][main.user] =
                  ApplyStep(@, Head(main.todo), Head(main.rows))]
    /\ main' = [main EXCEPT !.todo = Tail(@)]
    /\ UNCHANGED <<now, single, USER_DATA_MAPPING, csv, job, flow>>

\* process_transaction returns to confirm, or its exception leaves
\* process_csv and the refresh: the handler ends.
HandlerEnd ==
    /\ main.pc = "tx"
    /\ main.todo = <<>>
    /\ ~main.refresh \/ Raises(Head(main.rows))
    /\ main' = MainIdle(main.confirms, main.refreshes)
    /\ UNCHANGED <<now, single, heap, USER_DATA_MAPPING, csv, job, flow>>

\* The loop of process_csv goes on to the next row.
NextRow ==
    /\ main.pc = "tx"
    /\ main.todo = <<>>
    /\ main.refresh /\ ~Raises(Head(main.rows))
    /\ Tail(main.rows) # <<>>
    /\ main' = [StartRow(main.user, Head(Tail(main.rows)),
                         heap[main.dict][main.user]) EXCEPT
                  !.rows = Tail(main.rows)]
    /\ UNCHANGED <<now, single, heap, USER_DATA_MAPPING, csv, job, flow>>

\* The loop of process_csv ends after the last row.
RowsEnd ==
    /\ main.pc = "tx"
    /\ main.todo = <<>>
    /\ main.refresh /\ ~Raises(Head(main.rows))
    /\ Tail(main.rows) = <<>>
    /\ main' = [main EXCEPT !.pc = "csvend", !.rows = <<>>]
    /\ UNCHANGED <<now, single, heap, USER_DATA_MAPPING, csv, job, flow>>

\* The end of process_csv: last_update is set; the refresh goes on to the
\* next instance or ends.
CsvEnd ==
    /\ main.pc = "csvend"
    /\ heap' = [heap EXCEPT ![main.dict][main.user].last_update = now]
    /\ main' = IF Tail(main.users) = <<>>
               THEN MainIdle(main.confirms, main.refreshes)
               ELSE [main EXCEPT !.pc = "open", !.users = Tail(@)]
    /\ UNCHANGED <<now, single, USER_DATA_MAPPING, csv, job, flow>>

\* process_csv of the next instance opens its file.
CsvOpen ==
    /\ main.pc = "open"
    /\ main' = IF csv[Head(main.users)] = <<>>
               THEN [main EXCEPT !.pc = "csvend", !.user = Head(main.users)]
               ELSE [StartRow(Head(main.users), Head(csv[Head(main.users)]),
                              heap[main.dict][Head(main.users)]) EXCEPT
                       !.rows = csv[Head(main.users)]]
    /\ UNCHANGED <<now, single, heap, USER_DATA_MAPPING, csv, job, flow>>

\* /gre refresh: USER_DATA_MAPPING = None
RefreshClear ==
    /\ main.pc = "idle"
    /\ main.refreshes < MaxRefresh
    /\ USER_DATA_MAPPING' = NoneRef
    /\ main' = [main EXCEPT !.pc = "cleared", !.refresh = TRUE,
                            !.old = USER_DATA_MAPPING, !.refreshes = @ + 1]
    /\ UNCHANGED <<now, single, heap, csv, job, flow>>

\* /gre refresh: USER_DATA_MAPPING = {...}, a new instance for each user.
RefreshCreate ==
    /\ main.pc = "cleared"
    /\ heap' = Append(heap, NewDict)
    /\ USER_DATA_MAPPING' = Len(heap) + 1
    /\ main' = [main EXCEPT !.pc = "open", !.dict = Len(heap) + 1,
                            !.users = UserOrder]
    /\ UNCHANGED <<now, single, csv, job, flow>>

\* The cron trigger fires: the lambda reads USER_DATA_MAPPING and
\* calculate_daily_risk calls .items() on it (an AttributeError on None).
JobFire ==
    /\ job.pc = "idle"
    /\ job.runs < MaxRuns
    /\ job' = IF USER_DATA_MAPPING = NoneRef
              THEN JobIdle(job.runs + 1,
                           [SeenNothing EXCEPT !.kind = "missing"])
              ELSE [job EXCEPT !.pc = "run", !.dict = USER_DATA_MAPPING,
                               !.users = UserOrder, !.runs = @ + 1]
    /\ UNCHANGED <<now, single, heap, USER_DATA_MAPPING, csv, main, flow>>

\* The ledgers before and after the transaction or the LOC update under way
\* on ledger L.
SeenInTx(u, L, pre, post) ==
    IF main.pc \in {"tx", "loc"} /\ main.dict = job.dict /\ main.user = u
    THEN [pre |-> pre, post |-> post]
    ELSE [pre |-> L, post |-> L]

\* The ledgers of user u before and after the refresh under way.
SeenInRefresh(u, L, new) ==
    IF main.refresh
    THEN [old |-> heap[main.old][u], new |-> new]
    ELSE [old |-> L, new |-> L]

Observe(u, L, tx, re) == Seen("ledger", u, L, tx.pre, tx.post, re.old, re.new)

JobReads(u, seen) ==
    job' = IF Tail(job.users) = <<>> THEN JobIdle(job.runs, seen)
           ELSE [job EXCEPT !.users = Tail(@), !.seen = seen]

\* calculate_daily_risk reads the ledger of the next user of the dictionary.
JobRead ==
    /\ job.pc = "run"
    /\ JobReads(Head(job.users),
                Observe(Head(job.users), heap[job.dict][Head(job.users)],
                        SeenInTx(Head(job.users),
                                 heap[job.dict][Head(job.users)], main.pre,
                                 IF main.pc = "loc"
                                 THEN LocUpdated(main.pre, main.loc)
                                 ELSE IF main.rows = <<>> THEN main.pre
                                 ELSE process_transaction(
                                          main.pre, Head(main.rows), now).ledger),
                        SeenInRefresh(Head(job.users),
                                      heap[job.dict][Head(job.users)],
                                      Rebuilt(csv, Head(job.users), now))))
    /\ UNCHANGED <<now, single, heap, USER_DATA_MAPPING, csv, main, flow>>

NextBot ==
    \/ \E u \in Users, opens \in BOOLEAN : Transaction(u, opens)
    \/ \E row \in {StkRow(1), FeeRow} : ConfirmBegin(row)
    \/ TxStep
    \/ HandlerEnd
    \/ NextRow
    \/ RowsEnd
    \/ CsvEnd
    \/ CsvOpen
    \/ RefreshClear
    \/ RefreshCreate
    \/ JobFire
    \/ JobRead

SpecBot == InitBot /\ [][NextBot]_vars

\* The event loop alone: the commands and the refresh, with no scheduled
\* job beside them.
NextRefresh ==
    \/ \E u \in Users, opens \in BOOLEAN : Transaction(u, opens)
    \/ \E row \in {StkRow(1), FeeRow} : ConfirmBegin(row)
    \/ TxStep
    \/ HandlerEnd
    \/ NextRow
    \/ RowsEnd
    \/ CsvEnd
    \/ CsvOpen
    \/ RefreshClear
    \/ RefreshCreate

SpecRefresh == InitBot /\ [][NextRefresh]_vars

\* /transaction Delete_Last: client.mz_data is bound, the last row of the
\* user's file is read and, when there is one, shown in a DeleteConfirmView.
DeleteLast(u) ==
    /\ main.pc = "idle"
    /\ USER_DATA_MAPPING # NoneRef
    /\ delete_view.count < MaxDelete
    /\ mz_data' = Instance(USER_DATA_MAPPING, u)
    /\ delete_view' =
          [NoDeleteView EXCEPT !.shown = get_last_trade(csv[u]) # <<>>,
                               !.by = u, !.csv_path = u,
                               !.last_trade = get_last_trade(csv[u]),
                               !.count = delete_view.count + 1]
    /\ UNCHANGED <<now, ledger, cache, last, heap, USER_DATA_MAPPING, csv, main,
                   job, view, cash64, listed, parsed, fetch, workflows>>

\* DeleteConfirmView.confirm: the file is read, its last row popped and the
\* rest written back; nothing is done to the instance in memory. On a file
\* without rows pop() raises IndexError, which confirm logs.
DeleteConfirm ==
    /\ main.pc = "idle"
    /\ delete_view.shown
    /\ csv' = IF csv[delete_view.csv_path] = <<>> THEN csv
              ELSE [csv EXCEPT ![delete_view.csv_path] =
                       delete_last_trade(@, delete_view.last_trade)]
    /\ delete_view' =
          [delete_view EXCEPT
              !.shown = FALSE,
              !.done = csv[delete_view.csv_path] # <<>>,
              !.raised = csv[delete_view.csv_path] = <<>>,
              !.removed = get_last_trade(csv[delete_view.csv_path])]
    /\ UNCHANGED <<now, ledger, cache, last, heap, USER_DATA_MAPPING, main, job,
                   flow, cash64, listed, parsed, fetch, workflows>>

\* The event loop with the Delete_Last workflow.
NextDelete ==
    \/ NextRefresh
    \/ \E u \in Users : DeleteLast(u)
    \/ DeleteConfirm

SpecDelete == InitBot /\ [][NextDelete]_vars

\* /transaction Close_Position or Assigned: TradeHandler.handle lists the
\* outstanding positions (Assigned: the options only), and the modal of the
\* selected one keeps the position as it was listed. When the lookup of a
\* latest date raises, nothing is shown.
OpenWorkflow(kind) ==
    /\ last.op # "init"
    /\ workflows.opened < MaxForms
    /\ IF LatestLookupFails(ledger)
       THEN workflows' = [workflows EXCEPT !.opened = @ + 1]
       ELSE \E p \in get_outstanding_positions(ledger) :
               /\ kind = "assigned"
                    => p.position.Type \in {Str("Put"), Str("Call")}
               /\ workflows' =
                     [workflows EXCEPT
                         !.opened = @ + 1,
                         !.modals = @ \cup {[kind |-> kind,
                                             position |-> p.position,
                                             series |-> p.series,
                                             id |-> workflows.opened + 1]}]
    /\ UNCHANGED <<now, ledger, cache, last>>
    /\ UNCHANGED <<heap, USER_DATA_MAPPING, csv, main, job, flow, cash64,
                   listed, parsed, fetch, delete_view>>

\* on_submit of ClosePositionModal and AssignedModal: more shares than the
\* modal's position holds is a ValueError, answered with an error message;
\* otherwise the transactions are built and shown in a ConfirmView.
Submitted(m, shares, date) ==
    /\ workflows' =
          IF shares * Scale > Abs(m.position.Shares)
          THEN [workflows EXCEPT !.modals = @ \ {m}, !.rejected = TRUE]
          ELSE [workflows EXCEPT
                   !.modals = @ \ {m},
                   !.views = @ \cup
                      {[kind |-> m.kind, position |-> m.position,
                        series |-> m.series, id |-> m.id,
                        shares |-> shares, date |-> date,
                        transactions |->
                           IF m.kind = "close"
                           THEN ClosePositionForm(m.position, date, shares,
                                                  ClosingValue)
                           ELSE AssignedForm(m.position, date, shares,
                                             PurchaseCost)]}]
    /\ UNCHANGED <<now, ledger, cache, last>>
    /\ UNCHANGED <<heap, USER_DATA_MAPPING, csv, main, job, flow, cash64,
                   listed, parsed, fetch, delete_view>>

SubmitForm(shares, date) ==
    \E m \in workflows.modals : Submitted(m, shares, date)

\* ConfirmView.confirm of a workflow: process_transaction for each of its
\* transactions in turn, on the ledger as it is now.
Confirmed(v) ==
    /\ ledger' = LoadRows(ledger, v.transactions, now).ledger
    /\ last' = [op |-> "append", rows |-> v.transactions, pre |-> ledger,
                today |-> now, outcome |-> "ok",
                raised |-> LoadRows(ledger, v.transactions, now).raised,
                n |-> last.n + 1]
    /\ workflows' =
          [workflows EXCEPT
              !.views = @ \ {v},
              !.applied =
                 [done |-> TRUE, kind |-> v.kind, series |-> v.series,
                  shares |-> v.shares, shown |-> v.position.Shares,
                  before |-> LatestOf(ledger, v.series),
                  after |-> LatestOf(ledger', v.series),
                  dated |-> v.date, today |-> now]]
    /\ UNCHANGED <<now, cache>>
    /\ UNCHANGED <<heap, USER_DATA_MAPPING, csv, main, job, flow, cash64,
                   listed, parsed, fetch, delete_view>>

ConfirmWorkflow == \E v \in workflows.views : Confirmed(v)

\* The ledger of one user with the Close_Position and Assigned workflows:
\* the startup load of a file that opens a position, the clock, and the
\* forms and confirmations in any order.
NextClose ==
    \/ \E row \in PositionRows : ProcessCsv(File(<<row>>))
    \/ Tick
    \/ \E kind \in {"close", "assigned"} : OpenWorkflow(kind)
    \/ \E shares \in 1..MaxShares, date \in Days : SubmitForm(shares, date)
    \/ ConfirmWorkflow

SpecClose == Init /\ [][NextClose]_vars

\* ------------------------------------------------------------ LOC updates

MaxLoc == 1

\* The values a user gives the Upd_LOC command.
LocTexts == {<<"2", "0">>, <<"5">>, <<"x">>}

\* update_env_values up to the instance's update: the .env file is
\* rewritten and the user's instance is looked up in the mapping.
UpdLocBegin(u, limit, usage) ==
    /\ main.pc = "idle"
    /\ main.locs < MaxLoc
    /\ USER_DATA_MAPPING # NoneRef
    /\ main' = [main EXCEPT !.pc = "loc", !.user = u,
                            !.dict = USER_DATA_MAPPING,
                            !.pre = heap[USER_DATA_MAPPING][u],
                            !.todo = <<"LOCLimit", "LOCUsage">>,
                            !.loc = Loc(limit, usage, FALSE),
                            !.locs = @ + 1]
    /\ UNCHANGED <<now, single, heap, USER_DATA_MAPPING, csv, job, flow>>

\* The text update_env_values converts for a field.
LocText(field) == IF field = "LOCLimit" THEN main.loc.limit ELSE main.loc.usage

\* user_data.LOCLimit = float(loc_limit), then the same for LOCUsage.
LocStep ==
    /\ main.pc = "loc"
    /\ main.todo # <<>>
    /\ Float(LocText(Head(main.todo))).ok
    /\ heap' = [heap EXCEPT ![main.dict][main.user] =
                  IF Head(main.todo) = "LOCLimit"
                  THEN [@ EXCEPT !.LOCLimit = Float(main.loc.limit).val]
                  ELSE [@ EXCEPT !.LOCUsage = Float(main.loc.usage).val]]
    /\ main' = [main EXCEPT !.todo = Tail(@)]
    /\ UNCHANGED <<now, single, USER_DATA_MAPPING, csv, job, flow>>

\* float() raises ValueError: it leaves update_env_values and the command.
LocRaise ==
    /\ main.pc = "loc"
    /\ main.todo # <<>>
    /\ ~Float(LocText(Head(main.todo))).ok
    /\ main' = [main EXCEPT !.pc = "idle", !.todo = <<>>, !.loc.failed = TRUE]
    /\ UNCHANGED <<now, single, heap, USER_DATA_MAPPING, csv, job, flow>>

\* update_env_values returns.
LocEnd ==
    /\ main.pc = "loc"
    /\ main.todo = <<>>
    /\ main' = [main EXCEPT !.pc = "idle"]
    /\ UNCHANGED <<now, single, heap, USER_DATA_MAPPING, csv, job, flow>>

NextLoc ==
    \/ \E u \in Users, limit \in LocTexts, usage \in LocTexts :
          UpdLocBegin(u, limit, usage)
    \/ LocStep
    \/ LocRaise
    \/ LocEnd
    \/ JobFire
    \/ JobRead

SpecLoc == InitBot /\ [][NextLoc]_vars

\* The writes of a row, once all are made, leave the ledger
\* process_transaction leaves.
TxStepsMakeTransaction ==
    (main.pc = "tx" /\ main.todo = <<>>)
    => heap[main.dict][main.user]
         = process_transaction(main.pre, Head(main.rows), now).ledger

\* ------------------------------------------------------------ the claims

\* The dates a query is asked about: the days of the clock and the day after.
QueryDates == 0..(MaxDay + 1)

\* The filter combinations a query is asked with: each filter not given, or
\* given with a value the rows use.
FilterChoices ==
    {Filters(a, c, t, m, i) :
        a \in {NoFilter, Str("A")},
        c \in {NoFilter, Str("USD")},
        t \in {NoTickers, Tickers({Str("X")})},
        m \in {NoFilter, Str("0%")},
        i \in {NoFilter, Str("temp")}}

NoFilters == Filters(NoFilter, NoFilter, NoTickers, NoFilter, NoFilter)

\* C4: in every reachable ledger state, for every date, category and filter
\* combination, the total get_spot_balance returns is the sum of the values
\* of the breakdown it returns.
C4_AggregateIsSumOfBreakdown ==
    \A date \in QueryDates, cat \in Categories, f \in FilterChoices :
        LET r == get_spot_balance(ledger, date, cat, f)
        IN  r.total = SumOver(DOMAIN r.breakdown, r.breakdown)

\* C4's case: cash balances of two accounts at one date, and a query by
\* account that keeps one of them with a balance other than zero.
C4_Witness ==
    \E date \in QueryDates :
        LET all == get_spot_balance(ledger, date, "cash_balances", NoFilters)
            one == get_spot_balance(ledger, date, "cash_balances",
                       Filters(Str("A"), NoFilter, NoTickers, NoFilter, NoFilter))
        IN  /\ Cardinality(DOMAIN all.breakdown) = 2
            /\ Cardinality(DOMAIN one.breakdown) = 1
            /\ one.total # 0
            /\ one.total # all.total

\* The update_daily_balance calls the rows of a transaction list made.
RECURSIVE UpdatesOf(_)
UpdatesOf(txs) ==
    IF txs = <<>> THEN <<>>
    ELSE Classify(Head(txs)).updates \o UpdatesOf(Tail(txs))

\* The updates among ups on the series (cat, key).
OnSeries(ups, cat, key) ==
    SelectSeq(ups, LAMBDA u : u.cat = cat /\ u.key = key)

\* The sum of the deltas of the updates among ups dated on or before day D.
RECURSIVE DeltaSum(_, _)
DeltaSum(ups, D) ==
    IF ups = <<>> THEN 0
    ELSE (IF Head(ups).date <= D THEN Head(ups).amount ELSE 0)
         + DeltaSum(Tail(ups), D)

\* The earliest date among the updates ups (ups is not empty).
EarliestDate(ups) ==
    CHOOSE d \in {ups[i].date : i \in 1..Len(ups)} :
        \A j \in 1..Len(ups) : d <= ups[j].date

\* The value the store holds for (cat, key) at day D, 0 when it holds none.
Stored(L, cat, key, D) ==
    IF key \in DOMAIN L.daily_balances[cat]
       /\ D \in DOMAIN L.daily_balances[cat][key]
    THEN L.daily_balances[cat][key][D]
    ELSE 0

\* The series the ledger holds, as pairs <<category, key>>.
SeriesOf(L) ==
    UNION {{<<cat, k>> : k \in DOMAIN L.daily_balances[cat]} : cat \in Categories}

C1_SeriesHolds(ups, cat, key) ==
    \A D \in EarliestDate(OnSeries(ups, cat, key))..last.today :
        Stored(ledger, cat, key, D) = DeltaSum(OnSeries(ups, cat, key), D)

C1_AllSeriesHold(ups) ==
    \A i \in 1..Len(ups) : C1_SeriesHolds(ups, ups[i].cat, ups[i].key)

\* C1: after any sequence of loads and appends, the clock advancing between
\* them, every series holds at every day from its earliest transaction date
\* through the day of the most recent ingestion the sum of the deltas of the
\* ingested transactions on it dated on or before that day.
C1_BalanceIsSumOfDeltas ==
    last.op \in {"load", "append"} => C1_AllSeriesHold(UpdatesOf(ledger.transactions))

\* The value get_spot_balance reports for one key at a date (0 when the
\* breakdown does not hold the key).
SpotValueIn(r, key) == IF key \in DOMAIN r.breakdown THEN r.breakdown[key] ELSE 0

SpotValue(L, cat, key, D) == SpotValueIn(get_spot_balance(L, D, cat, NoFilters), key)

C2_Quiet(ups, D1, D2) ==
    /\ EarliestDate(ups) <= D1
    /\ \A i \in 1..Len(ups) : ~(D1 < ups[i].date /\ ups[i].date <= D2)

\* C2: for every series and all dates D1 < D2 on or after its first
\* transaction with no transaction on it in (D1, D2], get_spot_balance
\* reports the same value at D1 and at D2, also for a D2 after the day the
\* series was last ingested.
C2_ForwardFill ==
    \A sk \in SeriesOf(ledger) : \A D1 \in QueryDates, D2 \in QueryDates :
        (D1 < D2 /\ C2_Quiet(OnSeries(UpdatesOf(ledger.transactions), sk[1], sk[2]), D1, D2))
        => SpotValue(ledger, sk[1], sk[2], D1) = SpotValue(ledger, sk[1], sk[2], D2)

\* The rows confirmed one at a time: ConfirmView.confirm for each, in order
\* (an exception leaves that handler and the next confirmation goes on).
RECURSIVE Replay(_, _, _)
Replay(L, rows, today) ==
    IF rows = <<>> THEN L
    ELSE Replay(process_transaction(L, Head(rows), today).ledger, Tail(rows), today)

SameLedger(L1, L2) ==
    /\ L1.transactions = L2.transactions
    /\ L1.daily_balances = L2.daily_balances
    /\ L1.first_transaction_date = L2.first_transaction_date

\* C3: from an empty ledger at a fixed day, one bulk load of a list of rows
\* and the same rows appended one at a time leave the same transaction list,
\* the same balance series and the same first transaction date.
C3_LoadEqualsReplay ==
    (last.op = "load" /\ last.outcome = "ok")
    => SameLedger(ledger, Replay(last.pre, last.rows, last.today))

\* The delta the updates ups add to (cat, key) at day d, filled through today.
RECURSIVE DeltaAt(_, _, _, _, _)
DeltaAt(ups, cat, key, d, today) ==
    IF ups = <<>> THEN 0
    ELSE (IF Head(ups).cat = cat /\ Head(ups).key = key
             /\ Head(ups).date <= d /\ d <= today
          THEN Head(ups).amount ELSE 0)
         + DeltaAt(Tail(ups), cat, key, d, today)

Targets(ups) == {<<ups[i].cat, ups[i].key>> : i \in 1..Len(ups)}

\* The entry of (cat, key) at day d: whether the store holds one, and its value.
Entry(L, cat, key, d) ==
    [held |-> key \in DOMAIN L.daily_balances[cat]
              /\ d \in DOMAIN L.daily_balances[cat][key],
     val  |-> Stored(L, cat, key, d)]

\* A late transaction: an accepted append dated before the day it is
\* appended, every series it targets holding a balance at that day already.
C5_Late(c) ==
    /\ last.op = "append"
    /\ c.outcome = "ok"
    /\ c.date < last.today
    /\ \A t \in Targets(c.updates) :
          Entry(last.pre, t[1], t[2], last.today).held

C5_Effect(c) ==
    \A sk \in SeriesOf(ledger) \cup SeriesOf(last.pre) : \A d \in 0..MaxDay :
        IF sk \in Targets(c.updates) /\ c.date <= d /\ d <= last.today
        THEN /\ Entry(ledger, sk[1], sk[2], d).held
             /\ Stored(ledger, sk[1], sk[2], d)
                  = Stored(last.pre, sk[1], sk[2], d)
                    + DeltaAt(c.updates, sk[1], sk[2], d, last.today)
        ELSE Entry(ledger, sk[1], sk[2], d) = Entry(last.pre, sk[1], sk[2], d)

C5_Holds(c) == C5_Late(c) => C5_Effect(c)

\* C5: an accepted transaction dated D before today, appended on series that
\* hold balances through today, adds each of its deltas to every day from D
\* through today of the series it targets, and leaves every earlier day of
\* those series and every other series as they were.
C5_LateAppendFillsTail == C5_Holds(Classify(last.rows[1]))

C5_WitnessAt(c) ==
    /\ C5_Late(c)
    /\ \E t \in Targets(c.updates) :
          /\ Entry(last.pre, t[1], t[2], c.date - 1).held
          /\ Stored(ledger, t[1], t[2], last.today)
               # Stored(last.pre, t[1], t[2], last.today)
    /\ SeriesOf(ledger) # Targets(c.updates)

\* C5's case: a late append that changed today's value of a series holding
\* an earlier day, with another series in the store.
C5_Witness == last.op = "append" /\ C5_WitnessAt(Classify(last.rows[1]))

\* C6: at any moment get_accounts, get_currencies and get_tickers return
\* exactly the accounts, currencies and tickers the balance series hold then.
C6_EnumerationIsCurrent ==
    /\ get_accounts(ledger, cache).result = AccountsOf(ledger)
    /\ get_currencies(ledger, cache).result = CurrenciesOf(ledger)
    /\ get_tickers(ledger, cache).result = TickersOf(ledger)

HasAcct(row) == row.Acct.tag # "absent"

\* C7: a bulk load never aborts: no row, whatever it lacks, raises out of
\* process_transaction, and every row after it is still ingested.
C7_LoadNeverAborts ==
    /\ ~last.raised
    /\ last.op = "load" =>
          ledger.transactions
            = last.pre.transactions \o SelectSeq(last.rows, HasAcct)

\* The outcomes of a row that is rejected or skipped.
Skipped == {"rejected", "KeyError", "ValueError"}

\* C8: a rejected or skipped row leaves the transaction list, the first
\* transaction date and every balance series as they were.
C8_SkippedRowChangesNothing ==
    (last.op = "append" /\ last.outcome \in Skipped)
    => /\ ledger.transactions = last.pre.transactions
       /\ ledger.first_transaction_date = last.pre.first_transaction_date
       /\ ledger.daily_balances = last.pre.daily_balances

\* C9: no reader observes a ledger to which only part of one transaction
\* has been applied: the ledger the scheduled job reads is either the
\* ledger before the transaction under way on it or the ledger after it.
C9_NoHalfAppliedTransaction ==
    job.seen.kind = "ledger"
    => \/ SameLedger(job.seen.L, job.seen.pre)
       \/ SameLedger(job.seen.L, job.seen.post)

\* C10: during a refresh a reader of USER_DATA_MAPPING finds it bound to a
\* dictionary, and the ledger it reads there is either the complete ledger
\* from before the refresh or the complete rebuilt one.
C10_RefreshIsAtomic ==
    /\ job.seen.kind # "missing"
    /\ job.seen.kind = "ledger"
       => \/ SameLedger(job.seen.L, job.seen.old)
          \/ SameLedger(job.seen.L, job.seen.new)

\* C11: after a refresh has completed, a confirmed transaction is applied to
\* the instance the mapping holds then, also when its workflow was started
\* before the refresh.
C11_ConfirmWritesCurrentInstance ==
    (main.pc = "tx" /\ ~main.refresh /\ main.refreshes > 0)
    => main.dict = USER_DATA_MAPPING

\* The LOC pair of an instance.
LocPair(L) == <<L.LOCLimit, L.LOCUsage>>

\* C12: an LOC update changes limit and usage together or not at all: the
\* pair a reader finds is the pair before the update or the pair after it,
\* and an update whose conversion failed has left the pair as it was.
C12_LocPairIsAtomic ==
    /\ job.seen.kind = "ledger"
       => LocPair(job.seen.L) \in {LocPair(job.seen.pre), LocPair(job.seen.post)}
    /\ main.loc.failed
       => LocPair(heap[main.dict][main.user]) = LocPair(main.pre)

\* Two filter combinations: none, and one value in every dimension.
MeanFilters ==
    {NoFilters,
     Filters(Str("A"), Str("USD"), Tickers({Str("X")}), Str("0%"), Str("temp"))}

\* Names that are none of the seven categories.
BadCategories == {"", "cash", "Investments", "stk_share"}

\* C13: get_spot_balance and get_average_balance asked with a name that is
\* no category raise ValueError, for every date and filter, and leave the
\* ledger as it was.
C13_UnknownCategoryRaises ==
    \A cat \in BadCategories, f \in MeanFilters, d1 \in QueryDates :
        /\ get_spot_balance(ledger, d1, cat, f).raised
        /\ get_spot_balance(ledger, d1, cat, f).ledger = ledger
        /\ \A d2 \in QueryDates :
              /\ get_average_balance(ledger, d1, d2, cat, f).raised = "ValueError"
              /\ get_average_balance(ledger, d1, d2, cat, f).ledger = ledger

\* C13's case: a ledger with a cash balance today, which the query reports
\* under 'cash_balances' and refuses under the name 'cash'.
C13_Witness ==
    /\ get_spot_balance(ledger, now, "cash_balances", NoFilters).total # 0
    /\ ~get_spot_balance(ledger, now, "cash_balances", NoFilters).raised
    /\ get_spot_balance(ledger, now, "cash", NoFilters).raised
    /\ get_average_balance(ledger, 0, now, "cash", NoFilters).raised = "ValueError"

\* A quotient equal to a number.
RatioIs(q, n) == q.den # 0 /\ q.num = n * q.den

C14_SameAsSpot(avg, spot) ==
    /\ avg.raised = ""
    /\ ~spot.raised
    /\ RatioIs(avg.total, spot.total)
    /\ DOMAIN avg.breakdown = DOMAIN spot.breakdown
    /\ \A k \in DOMAIN spot.breakdown :
          RatioIs(avg.breakdown[k], spot.breakdown[k])

\* C14: for every date D, category and filter combination,
\* get_average_balance(D, D, ...) returns the total and the breakdown that
\* get_spot_balance(D, ...) returns.
C14_AverageOfOneDayIsSpot ==
    \A D \in QueryDates, cat \in Categories, f \in MeanFilters :
        C14_SameAsSpot(get_average_balance(ledger, D, D, cat, f),
                       get_spot_balance(ledger, D, cat, f))

\* C14's case: a day with two cash balances, their total other than zero.
C14_Witness ==
    /\ Cardinality(DOMAIN get_average_balance(
                       ledger, now, now, "cash_balances", NoFilters).breakdown) = 2
    /\ get_average_balance(ledger, now, now, "cash_balances", NoFilters).total.num # 0

\* The sum of the totals of the daily answers spots[d], d in days.
RECURSIVE SpotTotalSum(_, _)
SpotTotalSum(spots, days) ==
    IF days = {} THEN 0
    ELSE LET d == CHOOSE x \in days : TRUE
         IN  spots[d].total + SpotTotalSum(spots, days \ {d})

\* The sum of the values of key k in the daily answers, 0 where it is absent.
RECURSIVE SpotKeySum(_, _, _)
SpotKeySum(spots, days, k) ==
    IF days = {} THEN 0
    ELSE LET d == CHOOSE x \in days : TRUE
         IN  SpotValueIn(spots[d], k) + SpotKeySum(spots, days \ {d}, k)

\* The keys some daily answer reports.
SpotKeysOver(spots) == UNION {DOMAIN spots[d].breakdown : d \in DOMAIN spots}

\* The answers of get_spot_balance on each day of a range.
SpotsOver(L, days, cat, f) == [d \in days |-> get_spot_balance(L, d, cat, f)]

C15_IsMean(avg, spots) ==
    /\ avg.raised = ""
    /\ avg.total.den = Cardinality(DOMAIN spots)
    /\ avg.total.num = SpotTotalSum(spots, DOMAIN spots)
    /\ DOMAIN avg.breakdown = SpotKeysOver(spots)
    /\ \A k \in DOMAIN avg.breakdown :
          /\ avg.breakdown[k].den = Cardinality(DOMAIN spots)
          /\ avg.breakdown[k].num = SpotKeySum(spots, DOMAIN spots, k)

\* C15: for start <= end, get_average_balance returns the sum of the daily
\* spot totals over the closed range divided by the inclusive day count, and
\* for each breakdown key the sum of its daily spot values (0 on a day
\* without it) divided by the same count.
C15_AverageIsMean ==
    \A d1 \in QueryDates, d2 \in QueryDates, cat \in Categories, f \in MeanFilters :
        d1 <= d2 =>
            C15_IsMean(get_average_balance(ledger, d1, d2, cat, f),
                       SpotsOver(ledger, d1..d2, cat, f))

\* C15's case: a range of two days or more over which a key is reported on
\* some days and not on others, and the daily totals differ.
C15_Witness ==
    \E d1 \in QueryDates, d2 \in QueryDates :
        /\ d1 < d2
        /\ DOMAIN get_spot_balance(ledger, d1, "cash_balances", NoFilters).breakdown
             # DOMAIN get_spot_balance(ledger, d2, "cash_balances", NoFilters).breakdown
        /\ get_spot_balance(ledger, d1, "cash_balances", NoFilters).total # 0
        /\ get_average_balance(ledger, d1, d2, "cash_balances", NoFilters).total.num
             # get_spot_balance(ledger, d1, "cash_balances", NoFilters).total
                 * DayCount(d1, d2)

\* The filter dimensions the key shape of a category holds.
Shape(cat) ==
    CASE cat = "cash_balances" -> {"account", "currency"}
      [] cat = "investments" -> {"account", "currency", "investment_type"}
      [] cat = "revenue" -> {"account", "currency", "tickers"}
      [] OTHER -> {"account", "currency", "margin", "tickers"}

\* The position of the ticker in a key of the category.
TickerAt(cat) == IF cat = "revenue" THEN 3 ELSE 4

\* Key k of the category passes every given filter its shape holds.
Passes(cat, k, f) ==
    /\ (f.account.tag = "none" \/ k[1] = f.account)
    /\ (f.currency.tag = "none" \/ k[2] = f.currency)
    /\ "investment_type" \in Shape(cat)
         => (f.investment_type.tag = "none" \/ k[3] = f.investment_type)
    /\ "margin" \in Shape(cat) => (f.margin.tag = "none" \/ k[3] = f.margin)
    /\ "tickers" \in Shape(cat)
         => (~f.tickers.given \/ k[TickerAt(cat)] \in f.tickers.list)

\* The filters with those on dimensions the shape lacks taken away.
Applicable(cat, f) ==
    Filters(f.account, f.currency,
            IF "tickers" \in Shape(cat) THEN f.tickers ELSE NoTickers,
            IF "margin" \in Shape(cat) THEN f.margin ELSE NoFilter,
            IF "investment_type" \in Shape(cat) THEN f.investment_type
            ELSE NoFilter)

\* Filters that tell keys apart: each not given, or given with a value some
\* keys of the rows hold and others do not.
TellingFilters ==
    {Filters(a, c, t, m, i) :
        a \in {NoFilter, Str("A")},
        c \in {NoFilter, Str("EUR")},
        t \in {NoTickers, Tickers({Str("Y")})},
        m \in {NoFilter, Str("50%")},
        i \in {NoFilter, Str("temp")}}

C16_Exact(L, date, cat, f, breakdown) ==
    /\ DOMAIN breakdown =
         {k \in DOMAIN L.daily_balances[cat] :
             date \in DOMAIN L.daily_balances[cat][k] /\ Passes(cat, k, f)}
    /\ breakdown = SpotBreakdown(L, date, cat, Applicable(cat, f))

\* C16: for every category, date and filter combination the breakdown of
\* get_spot_balance holds exactly the keys of the category with an entry at
\* the date that pass every given filter of the category's key shape, and
\* the filters on dimensions the shape lacks do not change it (nor, the
\* total being the sum of the breakdown, the total).
C16_FiltersFollowKeyShape ==
    \A date \in QueryDates, cat \in Categories, f \in TellingFilters :
        C16_Exact(ledger, date, cat, f, SpotBreakdown(ledger, date, cat, f))

\* C16's case: investments of both types today, of which the type filter
\* keeps one, while a cash query with ticker and margin filters no key
\* could pass keeps every cash balance.
C16_Witness ==
    /\ Cardinality(DOMAIN get_spot_balance(ledger, now, "investments",
                                           NoFilters).breakdown) = 2
    /\ Cardinality(DOMAIN get_spot_balance(
           ledger, now, "investments",
           Filters(NoFilter, NoFilter, NoTickers, NoFilter, Str("temp"))
           ).breakdown) = 1
    /\ DOMAIN get_spot_balance(
           ledger, now, "cash_balances",
           Filters(NoFilter, NoFilter, Tickers({Str("Y")}), Str("50%"),
                   Str("temp"))).breakdown
         = DOMAIN ledger.daily_balances["cash_balances"]

\* The last operation appended one transaction, which was processed to
\* its end.
Accepted == last.op = "append" /\ last.outcome = "ok"

\* The fields of a row as process_transaction parses them.
RowDate(row) == DateVal(row.Date.val)

RowAmount(row) == parse_amount(row.NetGains.val)

RowShares(row) == parse_amount(row.Shares.val)

\* The last operation added delta to the series (cat, key) on the days from
\* the row's date through the day of the operation, and to no other day.
Added(cat, key, row, delta) ==
    \A d \in 0..MaxDay :
        Stored(ledger, cat, key, d)
          = Stored(last.pre, cat, key, d)
            + (IF RowDate(row) <= d /\ d <= last.today THEN delta ELSE 0)

\* The last operation left the series of the category other than those of
\* keys as they were.
Untouched(cat, keys) ==
    \A k \in ((DOMAIN ledger.daily_balances[cat])
              \cup (DOMAIN last.pre.daily_balances[cat])) \ keys :
        \A d \in 0..MaxDay :
            Entry(ledger, cat, k, d) = Entry(last.pre, cat, k, d)

C17_Holds(row) ==
    /\ Added("cash_balances", <<row.Acct, row.Currency>>, row, RowAmount(row))
    /\ Untouched("cash_balances", {<<row.Acct, row.Currency>>})

\* C17: every accepted transaction, whatever its type, adds its parsed net
\* amount once to the cash balance of its (account, currency), and changes
\* no other cash balance.
C17_CashUpdatedOnce == Accepted => C17_Holds(last.rows[1])

\* C17's case: today's cash balance of the account changed by a cash
\* investment, and earlier by a row of another type.
C17_Witness ==
    /\ Accepted
    /\ last.rows[1].TransType = Str("Cash")
    /\ RowDate(last.rows[1]) <= last.today
    /\ Len(ledger.transactions) = 2
    /\ ledger.transactions[1].TransType \in RevenueTypes
    /\ Stored(ledger, "cash_balances", <<Str("B"), Str("USD")>>, last.today) # 0
    /\ Stored(ledger, "cash_balances", <<Str("A"), Str("USD")>>, last.today) # 0

RevenueKey(row) == <<row.Acct, row.Currency, row.Ticker, row.TransType>>

C20_Holds(row) ==
    IF row.TransType \in {Str("Put"), Str("Call"), Str("Cap Gains"),
                          Str("Div"), Str("Int / Tax")}
    THEN /\ Added("revenue", RevenueKey(row), row, RowAmount(row))
         /\ Untouched("revenue", {RevenueKey(row)})
    ELSE ledger.daily_balances["revenue"] = last.pre.daily_balances["revenue"]

\* C20: an accepted transaction adds its net amount to the revenue series
\* of its (account, currency, ticker, type) when its type is Put, Call,
\* Cap Gains, Div or Int / Tax, and to that series only; a transaction of
\* another type (Stk, Cash) leaves every revenue series as it was.
C20_RevenueByType == Accepted => C20_Holds(last.rows[1])

\* C20's case: a dividend appended to a ledger that holds revenue of
\* another type, today's dividend revenue other than zero.
C20_Witness ==
    /\ Accepted
    /\ last.rows[1].TransType = Str("Div")
    /\ Stored(ledger, "revenue", RevenueKey(last.rows[1]), last.today) # 0
    /\ Cardinality(DOMAIN ledger.daily_balances["revenue"]) = 2

StkKey(row) == <<row.Acct, row.Currency, row.Margin, row.Ticker>>

\* What an accepted Stock row does: shares and the negated amount added at
\* its key, no revenue, option or investments series written.
C18_Effect(row) ==
    /\ Added("stk_shares", StkKey(row), row, RowShares(row))
    /\ Added("stk_notional", StkKey(row), row, 0 - RowAmount(row))
    /\ Untouched("stk_shares", {StkKey(row)})
    /\ Untouched("stk_notional", {StkKey(row)})
    /\ \A cat \in {"revenue", "opt_positions", "opt_notional", "investments"} :
          ledger.daily_balances[cat] = last.pre.daily_balances[cat]

C18_StockEffect ==
    (Accepted /\ last.rows[1].TransType = Str("Stk")) => C18_Effect(last.rows[1])

\* The ledger holds a purchase and then a closing sale on the same key, and
\* nothing else.
C18_BoughtThenClosed(txs) ==
    /\ Len(txs) = 2
    /\ txs[1].TransType = Str("Stk")
    /\ txs[2].TransType = Str("Stk")
    /\ StkKey(txs[1]) = StkKey(txs[2])
    /\ RowShares(txs[1]) > 0
    /\ RowShares(txs[2]) < 0
    /\ RowDate(txs[1]) <= RowDate(txs[2])

\* Every date of the series on or after the close holds the shares bought
\* less the shares sold.
C18_Remainder(txs) ==
    \A D \in DOMAIN ledger.daily_balances["stk_shares"][StkKey(txs[1])] :
        D >= RowDate(txs[2]) =>
            ledger.daily_balances["stk_shares"][StkKey(txs[1])][D]
              = RowShares(txs[1]) + RowShares(txs[2])

C18_Scenario ==
    C18_BoughtThenClosed(ledger.transactions) => C18_Remainder(ledger.transactions)

\* C18: an accepted Stock transaction adds its signed shares to stk_shares
\* and the negation of its net amount to stk_notional at (account,
\* currency, margin, ticker) and writes no revenue, option or investments
\* series; and after a purchase followed by a closing sale on the same key,
\* stk_shares holds the shares bought less the shares sold at every date of
\* the series on or after the close.
C18_StockPosition == C18_StockEffect /\ C18_Scenario

OptionTypes == {Str("Put"), Str("Call")}

RowStrike(row) == parse_amount(StrikeText(row))

\* The seven dimensions of an option row: the strike as a number, the
\* expiry as a date.
OptionDims(row) ==
    <<row.Acct, row.Currency, row.Margin, row.Ticker, row.TransType,
      RowStrike(row), DateVal(row.Expiry.val)>>

\* The seven dimensions a stored option key stands for: float() of its
\* strike text.
KeyDims(k) == <<k[1], k[2], k[3], k[4], k[5], k[6].digits, k[7]>>

\* The option series stored under the dimensions of a row.
SeriesWithDims(row) ==
    {k \in (DOMAIN ledger.daily_balances["opt_positions"])
           \cup (DOMAIN ledger.daily_balances["opt_notional"]) :
        KeyDims(k) = OptionDims(row)}

\* What an accepted option row does: the count added to opt_positions and
\* count x strike to opt_notional at one key of its dimensions.
C19_Effect(row) ==
    \E k \in SeriesWithDims(row) :
        /\ Added("opt_positions", k, row, RowShares(row))
        /\ Added("opt_notional", k, row,
                 (RowShares(row) * RowStrike(row)) \div Scale)
        /\ Untouched("opt_positions", {k})
        /\ Untouched("opt_notional", {k})

C19_OptionEffect ==
    (Accepted /\ last.rows[1].TransType \in OptionTypes)
        => C19_Effect(last.rows[1])

\* Option transactions of the ledger with the same seven dimensions are on
\* one series.
C19_SameSeries ==
    \A i \in 1..Len(ledger.transactions) :
        ledger.transactions[i].TransType \in OptionTypes
            => Cardinality(SeriesWithDims(ledger.transactions[i])) = 1

\* C19: an accepted Put or Call adds its signed count to opt_positions and
\* count x strike to opt_notional at the same key of its seven dimensions,
\* and option transactions that agree on the seven dimensions (strikes
\* equal as numbers, expiries the same date) are on the same series.
C19_OptionSeries == C19_OptionEffect /\ C19_SameSeries

\* The markers the notes of a row carry.
NotesOf(row) == Lower(IF row.Notes.tag = "str" THEN row.Notes.val ELSE <<>>)

Permanent(row) ==
    Contains(NotesOf(row), "invest") /\ Contains(NotesOf(row), "pre convert")

Temporary(row) ==
    Contains(NotesOf(row), "margin cover")
    \/ Contains(NotesOf(row), "short term juicing")

Withdrawal(row) == Contains(NotesOf(row), "personal withdraw")

Bucket(row, name) == <<row.Acct, row.Currency, Str(name)>>

\* The last operation added the row's amount to one investments bucket and
\* left the others as they were.
C21_Changed(row, name) ==
    /\ Added("investments", Bucket(row, name), row, RowAmount(row))
    /\ Untouched("investments", {Bucket(row, name)})

C21_Unchanged ==
    ledger.daily_balances["investments"] = last.pre.daily_balances["investments"]

\* The claim as it is written: regular for a permanent or a withdrawal
\* marker, temp for a temporary marker.
C21_Stated(row) ==
    IF row.TransType # Str("Cash") THEN C21_Unchanged
    ELSE /\ (Permanent(row) \/ Withdrawal(row)) => C21_Changed(row, "regular")
         /\ Temporary(row) => C21_Changed(row, "temp")
         /\ ~(Permanent(row) \/ Withdrawal(row) \/ Temporary(row))
              => C21_Unchanged

C21_AsStated == Accepted => C21_Stated(last.rows[1])

\* The claim with the markers taken in the order the code reads them.
C21_Ordered(row) ==
    IF row.TransType # Str("Cash") THEN C21_Unchanged
    ELSE IF Permanent(row) THEN C21_Changed(row, "regular")
    ELSE IF Temporary(row) THEN C21_Changed(row, "temp")
    ELSE IF Withdrawal(row) THEN C21_Changed(row, "regular")
    ELSE C21_Unchanged

\* C21: only an accepted Cash transaction changes an investments series,
\* and it changes at most one bucket, by its net amount: regular when the
\* notes carry the permanent-investment markers; otherwise temp when they
\* carry a temporary marker; otherwise regular when they carry the
\* personal-withdrawal marker; otherwise none.
C21_InvestmentBucketByNotes == Accepted => C21_Ordered(last.rows[1])

\* C21's case: a Cash row whose notes carry a temporary and a withdrawal
\* marker, appended to a ledger that holds a regular investment; the temp
\* bucket changed.
C21_Witness ==
    /\ Accepted
    /\ last.rows[1].TransType = Str("Cash")
    /\ Temporary(last.rows[1])
    /\ Withdrawal(last.rows[1])
    /\ Stored(last.pre, "investments", Bucket(last.rows[1], "regular"),
              last.today) # 0
    /\ Stored(ledger, "investments", Bucket(last.rows[1], "temp"),
              last.today) # 0

\* ------------------------------------------------- C22: order of ingestion

\* The orders of n rows: the permutations of 1..n.
Orders(n) == {p \in [1..n -> 1..n] : \A i, j \in 1..n : p[i] = p[j] => i = j}

Permuted(rows, p) == [i \in 1..Len(rows) |-> rows[p[i]]]

\* The ledger a new instance ingests from the rows in the order p, and its
\* cash series in binary64.
InOrder(rows, p, today) ==
    process_csv(NewLedger(EnvLimit, EnvUsage), NoCache,
                File(Permuted(rows, p)), today).ledger

InOrder64(rows, p, today) == Ingest64(EmptyMap, Permuted(rows, p), today)

\* The rational sums of any order agree: rounding is the only difference.
C22_ExactSumsAgree ==
    \A p \in Orders(Len(ledger.transactions)) :
        /\ InOrder(ledger.transactions, p, now).daily_balances
               = ledger.daily_balances
        /\ InOrder(ledger.transactions, p, now).first_transaction_date
               = ledger.first_transaction_date

\* C22: with the current day fixed, every permutation of the rows a ledger
\* has ingested gives the same daily balance series (here the cash series,
\* as the interpreter computes it) and the same first_transaction_date.
C22_OrderIndependent ==
    \A p \in Orders(Len(ledger.transactions)) :
        /\ InOrder64(ledger.transactions, p, now) = cash64
        /\ InOrder(ledger.transactions, p, now).first_transaction_date
               = ledger.first_transaction_date

\* ------------------------------------------- C23: first_transaction_date

\* process_transaction ran to its end on the row (whether it does depends
\* on the row alone).
RunsToEnd(row, today) ==
    process_transaction(NewLedger(EnvLimit, EnvUsage), row, today).outcome
        = "ok"

\* The effective dates of the rows the ledger accepted.
AcceptedDates(L, today) ==
    {RowDate(L.transactions[i]) :
        i \in {j \in 1..Len(L.transactions) :
                  RunsToEnd(L.transactions[j], today)}}

MinOf(S) == CHOOSE d \in S : \A e \in S : d <= e

\* first_transaction_date never moves to a later date, and is never unset
\* again.
C23_NeverLater ==
    last.pre.first_transaction_date # NoDate
    => /\ ledger.first_transaction_date # NoDate
       /\ ledger.first_transaction_date <= last.pre.first_transaction_date

\* C23: after any loads and appends first_transaction_date is the minimum
\* effective date over the accepted (not skipped) rows, is unset when no
\* row has been accepted, and never moves later.
C23_FirstDateIsMinimum ==
    /\ ledger.first_transaction_date
         = IF AcceptedDates(ledger, now) = {} THEN NoDate
           ELSE MinOf(AcceptedDates(ledger, now))
    /\ C23_NeverLater

\* ------------------------------------------------ C24: results are copies

\* C24: a caller that mutates a returned result changes neither the ledger
\* nor the result of a later query: the list get_accounts will return next
\* is the list it returned to the last caller, as it was returned.
C24_ResultsAreCopies ==
    cache.accounts.hit => listed.list = listed.returned

\* ------------------------------------------------------ C25: get_loc_info

\* No load, append or enumeration changes the pair: a ledger taken alone
\* answers with the pair it was constructed with.
C25_LoadsAndQueriesKeepPair ==
    /\ get_loc_info(ledger) = <<EnvLimit, EnvUsage>>
    /\ get_loc_info(ledger) = get_loc_info(last.pre)

\* The pair the last LOC update of user u gave, when it gave two numbers.
UpdatedPair(u) ==
    IF /\ main.locs > 0
       /\ main.user = u
       /\ Float(main.loc.limit).ok
       /\ Float(main.loc.usage).ok
    THEN {<<Float(main.loc.limit).val, Float(main.loc.usage).val>>}
    ELSE {}

\* C25: between commands get_loc_info returns the pair supplied at
\* construction or, after an LOC update, the pair that update wrote.
C25_LocInfoIsLastPair ==
    main.pc = "idle"
    => \A u \in Users :
          get_loc_info(heap[USER_DATA_MAPPING][u])
            \in IF UpdatedPair(u) = {} THEN {<<EnvLimit, EnvUsage>>}
                ELSE UpdatedPair(u)

\* ------------------------------------------------------------ C26: refresh

\* The step that ends a refresh: the last process_csv returns.
RefreshCompletes ==
    /\ main.refresh
    /\ main.pc = "csvend"
    /\ main'.pc = "idle"

\* C26: when a refresh completes, the ledger of every user is the ledger a
\* new instance with the configured LOC values builds from the user's file,
\* and no step of the refresh changes the dictionary it replaced.
C26_RefreshRebuilds ==
    [][/\ RefreshCompletes
          => \A u \in Users :
                heap'[USER_DATA_MAPPING'][u] = Rebuilt(csv, u, now)
       /\ main.refresh => heap'[main.old] = heap[main.old]]_vars

\* A refresh has completed over a file that holds an appended row, and the
\* dictionary it replaced is still in memory.
C26_Witness ==
    /\ main.pc = "idle"
    /\ main.refreshes > 0
    /\ USER_DATA_MAPPING = 2
    /\ \E u \in Users :
          /\ Len(csv[u]) > 1
          /\ heap[2][u] = Rebuilt(csv, u, now)
          /\ heap[1][u] # heap[2][u]

\* ------------------------------------------------------ C27: parse_amount

\* The blank and dash sentinels.
Sentinels == {<<>>, <<"-">>, <<"$", "-">>}

\* The text without surrounding whitespace, currency symbols and thousands
\* separators.
Bare(text) ==
    SelectSeq(Strip(text), LAMBDA c : c \notin {"$", "EUR", "GBP", ","})

Wrapped(s) == Len(s) >= 2 /\ s[1] = "(" /\ s[Len(s)] = ")"

\* The decimal value of s, 0 when s is no decimal.
DecimalOrZero(s) == IF Float(s).ok THEN Float(s).val ELSE 0

\* The amount the rules give a text.
AmountByRules(text) ==
    IF Strip(text) \in Sentinels THEN 0
    ELSE IF Wrapped(Bare(text))
         THEN 0 - DecimalOrZero(SubSeq(Bare(text), 2, Len(Bare(text)) - 1))
         ELSE DecimalOrZero(Bare(text))

\* The four examples.
C27_Examples ==
    /\ parsed.arg = Txt(<<"$", "1", ",", "2", "3", "4", ".", "5", "6">>)
       => parsed.val = 123456
    /\ parsed.arg = Txt(<<"(", "5", "0", "0", ".", "0", "0", ")">>)
       => parsed.val = 0 - 50000
    /\ parsed.arg \in {Txt(<<"-">>), Txt(<<"$", "-">>)} => parsed.val = 0

\* C27: parse_amount raises for no text; sentinels and texts that are no
\* decimal once the symbols are removed give 0.0, a text in parentheses
\* gives the negation of its interior, any other text its decimal value.
C27_ParserIsTotal ==
    (parsed.called /\ parsed.arg.tag = "str")
    => /\ parsed.raised = ""
       /\ parsed.val = AmountByRules(parsed.arg.val)
       /\ C27_Examples

\* parse_amount was given '(5)' and returned -5.00.
C27_Witness ==
    /\ parsed.called
    /\ parsed.arg = Txt(<<"(", "5", ")">>)
    /\ parsed.raised = ""
    /\ parsed.val = 0 - 5 * Scale

\* --------------------------------------------------- C28: get_live_prices

\* Each fetch is attempted at most max_retries times and never again after
\* its first success, and no exception leaves the call.
C28_Bounded ==
    /\ \A what \in {"stocks", "options"} :
          /\ fetch.calls[what] <= fetch.max_retries
          /\ fetch.first[what] # 0 => fetch.calls[what] = fetch.first[what]
    /\ ~fetch.raised

\* C28: get_live_prices attempts each of its two fetches at most
\* max_retries times, makes no attempt for a fetch after its first success,
\* and always ends by returning the prices it has, also when every attempt
\* failed.
C28_RetriesBoundedAndReturns ==
    /\ []C28_Bounded
    /\ (fetch.pc # "idle") ~> (fetch.pc = "done" /\ fetch.returned)

\* A call in which every stock attempt failed and the options were fetched
\* at the second attempt, and which has returned.
C28_Witness ==
    /\ fetch.pc = "done"
    /\ fetch.max_retries = 3
    /\ fetch.calls = [stocks |-> 3, options |-> 2]
    /\ fetch.first = [stocks |-> 0, options |-> 2]
    /\ fetch.returned

\* --------------------------------------------------- C29: reversed ranges

\* C29: for every start later than the end, the day before the start
\* included, get_average_balance raises nothing and returns a total of
\* zero and an empty breakdown.
C29_ReversedRangeIsZero ==
    \A start \in QueryDates, end \in QueryDates, cat \in Categories :
        start > end
        => /\ get_average_balance(ledger, start, end, cat, NoFilters).raised = ""
           /\ RatioIs(get_average_balance(ledger, start, end, cat,
                                          NoFilters).total, 0)
           /\ get_average_balance(ledger, start, end, cat, NoFilters).breakdown
                = EmptyMap

\* The same for ends two days or more before the start.
C29_EarlierEndsAreZero ==
    \A start \in QueryDates, end \in QueryDates, cat \in Categories :
        start > end + 1
        => /\ get_average_balance(ledger, start, end, cat, NoFilters).raised = ""
           /\ RatioIs(get_average_balance(ledger, start, end, cat,
                                          NoFilters).total, 0)
           /\ get_average_balance(ledger, start, end, cat, NoFilters).breakdown
                = EmptyMap

\* --------------------------------------------------------- C30: pure reads

\* No filter, and an account no key holds.
ReadFilters ==
    {NoFilters,
     Filters(Str("Z"), NoFilter, NoTickers, NoFilter, NoFilter)}

C31_ConfirmWritesOwnLedger ==
    (main.pc = "tx" /\ ~main.refresh /\ main.by # "")
    => /\ main.user = main.by
       /\ csv[main.by] # <<>>
       /\ csv[main.by][Len(csv[main.by])] = Head(main.rows)

\* ----------------------------------------------------- C32: Delete_Last

\* C32: when a Delete_Last confirmation is accepted, the row removed from
\* the file is the row that was displayed, also when another transaction
\* was appended to the file in between.
C32_DeletesDisplayedRow ==
    delete_view.done => delete_view.removed = delete_view.last_trade

\* ------------------------------------------- C33: the ledger and its file

\* C33: after every completed mutating command (a confirmed trade, a
\* confirmed Delete_Last, a refresh) the balances of each user's ledger in
\* memory are the balances a new ledger gets from the rows now in the
\* user's file.
C33_LedgerMatchesFile ==
    (main.pc = "idle" /\ USER_DATA_MAPPING # NoneRef)
    => \A u \in Users :
          heap[USER_DATA_MAPPING][u].daily_balances
             = Rebuilt(csv, u, now).daily_balances

\* ------------------------------------------------- C34: series have entries

\* C34: every series of the store has at least one dated entry, whatever the
\* dates of the ingested transactions (dates after the current day
\* included), so that the lookup of a series' latest date in
\* get_outstanding_positions never fails.
C34_SeriesHaveEntries ==
    /\ \A c \in Categories :
          \A k \in DOMAIN ledger.daily_balances[c] :
             DOMAIN ledger.daily_balances[c][k] # {}
    /\ ~LatestLookupFails(ledger)

\* --------------------------------------------------- C35: closing a position

\* C35: for a position with balance P # 0 of either sign and a close
\* quantity n with 0 < n <= |P|, confirming the transactions of the
\* Close_Position workflow leaves the balance of the position with
\* magnitude |P| - n (0 for n = |P|, which takes it out of the outstanding
\* positions).
C35_CloseReducesMagnitude ==
    LET a == workflows.applied
    IN  (/\ a.done
         /\ a.kind = "close"
         /\ a.before = a.shown
         /\ a.before # 0
         /\ 0 < a.shares
         /\ a.shares * Scale <= Abs(a.before))
        => /\ Abs(a.after) = Abs(a.before) - a.shares * Scale
           /\ (a.shares * Scale = Abs(a.before))
                => a.series \notin OutstandingSeries(ledger)

\* ------------------------------------------------- C36: interleaved workflows

\* C36: in every interleaving of Close_Position and Assigned workflows on
\* one position, the bound checked when a form is submitted still holds when
\* its transactions are applied: the quantity they close is not more than
\* the position then holds.
C36_BoundHoldsAtConfirm ==
    workflows.applied.done
    => workflows.applied.shares * Scale <= Abs(workflows.applied.before)














=============================================================================
